---- MODULE Spec2Model ----
(***************************************************************************)
(* Model of the giveaway picker's fair-selection engine:                   *)
(*   - the secure random engine (web utility random.ts, and the copies in  *)
(*     the extension's background.js and popup.js),                        *)
(*   - the eligibility calculator (extension/lib/eligibility.js and the    *)
(*     background script's message handlers),                              *)
(*   - the bot filter pipeline (web utility filter.ts and the extension's  *)
(*     applyFilters),                                                      *)
(*   - the verification hashing (web utility hash.ts),                     *)
(*   - the eligibility calculation of the extension popup (popup.js),      *)
(*   - the winner verification of the popup (verifyAndPickWinners),        *)
(*   - the collection in the content script (content.js) and its store,    *)
(*   - the collection queue of the background script,                      *)
(*   - the web application's state (context/AppContext.tsx),               *)
(*   - the follow checks of the web API client (api/twitter.ts).           *)
(* Every component has its own specification (SpecRandom, SpecElig,        *)
(* SpecFilter, SpecHash, SpecPopup, SpecVerify, SpecCollect, SpecQueue,    *)
(* SpecQueueFair, SpecFetch, SpecDraw and SpecFollow); the variables of    *)
(* the other components stay at their initial values.                      *)
(***************************************************************************)
EXTENDS Integers, Sequences, FiniteSets, TLC

VARIABLES
    \* ---- secure random engine ----
    impl,       \* which copy of the code runs: "web", "background", "popup"
    op,         \* the exported function that was called
    pc,         \* "idle", "shuffle" (loop head), "draw" (do-while), "done", "threw"
    pool,       \* the caller's input list (participants / array)
    args,       \* the call's other arguments
    result,     \* secureShuffle: the working copy `result`
    i,          \* secureShuffle: the loop index (JS, 0-based)
    rmax,       \* secureRandomInt: the argument max
    value,      \* secureRandomInt: the last Uint32 read from the random source
    seed,       \* selectWinners*: the seed that will be returned
    out,        \* the value the call returned
    drawn,      \* secureShuffle: the indices j its swaps have used so far
    \* ---- eligibility ----
    giveawayData,   \* background.js global state
    response,       \* the last sendResponse of the background script
    libCall,        \* arguments of the last lib calculateEligible call
    libResult,      \* its return value
    \* ---- bot filter ----
    participants,   \* filterParticipants / applyFilters input list
    config,         \* FilterConfig
    filterOp,       \* "none", "filterParticipants", "applyFilters"
    filterResult,   \* the returned value
    \* ---- verification hashing ----
    hashLists,      \* the two participant lists that were hashed
    hashOut,        \* for each list: the canonical string and the returned hash
    \* ---- eligibility in the popup ----
    popup,          \* the checkboxes and collected lists of the last call
    popupResult,    \* what calculateEligible() of the popup returned
    \* ---- winner verification in the popup ----
    candidates,     \* verifyAndPickWinners: the shuffled list it was given
    wanted,         \* verifyAndPickWinners: its argument count
    maxToCheck,     \* verifyAndPickWinners: min(candidates.length, count + 10)
    idx,            \* verifyAndPickWinners: the loop index i (0-based)
    winners,        \* verifyAndPickWinners: winners
    failed,         \* verifyAndPickWinners: failed
    errors,         \* verifyAndPickWinners: errors
    checkResult,    \* verifyAndPickWinners: result, what the last check resolved to
    verifyPc,       \* "idle", "loop", "await", "got", "catch", "sleep", "done"
    warning,        \* what showWarning / showError last displayed
    stateWinners,   \* state.winners of the popup
    isCollecting,   \* state.isCollecting of the popup
    sent,           \* the CHECK_FOLLOWS messages sent during the call, in order
    stopSent,       \* stopCollection has sent CLEAR_QUEUE and STOP_COLLECT
    \* ---- collection in the content script ----
    collectedData,      \* its isCollecting, collectionMutex, collectType and maps
    page,               \* the page the tab shows
    pendingCollection,  \* chrome.storage.local: pendingCollection
    scriptPc,           \* initialize(): "read", "resume", "ready"
    loops,              \* the started navigateAndCollect / initialize runs
    reply,              \* the last response the content script sent
    storedData,         \* chrome.storage.local: collectedData
    saveTimeout,        \* saveToStorage's timer is pending
    observation,        \* the users handleApiResponse last went through
    \* ---- collection queue of the background script ----
    collectionQueue,    \* background.js: collectionQueue
    worker,             \* the processNextInQueue call under way, and its `next`
    collection,         \* "running" while a started collection has not completed
    timerSet,           \* setTimeout(() => processNextInQueue(), 1000) is pending
    collectionStatus,   \* giveawayData.collectionStatus
    queueReply,         \* the last sendResponse to START_QUEUE
    queueComplete,      \* QUEUE_COMPLETE was broadcast since the last START_QUEUE
    popupIsCollecting,  \* state.isCollecting of the popup
    acceptedItems,      \* the number of items the last START_QUEUE put in the queue
    acceptedQueue,      \* the queue the last START_QUEUE put in place
    sentStarts,         \* the items sent as START_COLLECT since the last START_QUEUE
    cleared,            \* CLEAR_QUEUE was acknowledged since the last START_QUEUE
    \* ---- web application (AppContext) ----
    appState,           \* the state of useReducer(appReducer, initialState)
    fetchRun,           \* the fetchParticipants call under way, and how the last ended
    drawRun,            \* the performDraw call under way, and how the last ended
    popupPick,          \* popup pickWinners: the filtered list and state.winners
    \* ---- follow checks of the web API client (TwitterClient) ----
    followRun           \* the checkUsersFollowAccount call under way

randomVars == <<impl, op, pc, pool, args, result, i, rmax, value, seed, out,
               drawn>>
eligVars   == <<giveawayData, response, libCall, libResult>>
filterVars == <<participants, config, filterOp, filterResult>>
hashVars   == <<hashLists, hashOut>>
popupVars  == <<popup, popupResult>>
verifyVars == <<candidates, wanted, maxToCheck, idx, winners, failed, errors,
               checkResult, verifyPc, warning, stateWinners, isCollecting, sent,
               stopSent>>

collectVars == <<collectedData, page, pendingCollection, scriptPc, loops, reply,
                 storedData, saveTimeout, observation>>

queueVars == <<collectionQueue, worker, collection, timerSet, collectionStatus,
              queueReply, queueComplete, popupIsCollecting, acceptedItems,
              acceptedQueue, sentStarts, cleared>>

appVars == <<appState, fetchRun, drawRun, popupPick>>

followVars == <<followRun>>

vars == <<randomVars, eligVars, filterVars, hashVars, popupVars, verifyVars,
          collectVars, queueVars, appVars, followVars>>

\* JavaScript's undefined
Undef == "undefined"

Min(a, b) == IF a < b THEN a ELSE b
Max(a, b) == IF a > b THEN a ELSE b

RECURSIVE Pow2(_)
Pow2(n) == IF n = 0 THEN 1 ELSE 2 * Pow2(n - 1)

(***************************************************************************)
(* Bounds                                                                  *)
(***************************************************************************)
\* Width of the random word. The code reads a Uint32; the model keeps the
\* arithmetic and scales the word down so that every draw can be enumerated.
WordBits == 3
\* Longest input list of the random engine
MaxPool == 3
\* Requested counts range over -MaxNeg .. MaxPool + 1
MaxNeg == 2
\* Longest retweeters / likers list handed to the lib calculateEligible
MaxList == 2
\* Longest users array of an UPDATE_* message to the background script
MaxBgList == 1
\* Longest input list of the filter model
MaxLen == 2

\* {1,15} in the username pattern
UsernameMaxLen == 15

\* 0xFFFFFFFF and 0x100000000 at the model's word width
MaxUint32 == Pow2(WordBits) - 1
TwoPow32 == Pow2(WordBits)
Uint32 == 0..MaxUint32

Elems == {"p1", "p2", "p3"}
Impls == {"web", "background", "popup"}
Seeds == {"s1", "s2"}
CountRange == (0 - MaxNeg)..(MaxPool + 1)
MaxArgRange == (0 - 1)..(TwoPow32 + 1)

Pools == UNION {[1..n -> Elems] : n \in 0..MaxPool}

(***************************************************************************)
(* Array helpers                                                           *)
(***************************************************************************)
\* Array.prototype.slice(start, end) with JavaScript's handling of negative
\* and out-of-range indices
Slice(s, start, end) ==
    LET len  == Len(s)
        from == IF start < 0 THEN Max(len + start, 0) ELSE Min(start, len)
        to   == IF end < 0 THEN Max(len + end, 0) ELSE Min(end, len)
    IN  IF from < to THEN [k \in 1..(to - from) |-> s[from + k]] ELSE <<>>

\* Mutant: the swap without the temporary, result[i] = result[j] only
SwapOverwrite(s, a, b) == [s EXCEPT ![a + 1] = s[b + 1]]

\* [result[i], result[j]] = [result[j], result[i]]   (i, j are JS indices)
Swap(s, a, b) == [s EXCEPT ![a + 1] = s[b + 1], ![b + 1] = s[a + 1]]

\* Mutant: the index is drawn below i, so an element never stays in place
DrawBoundBelow(k) == k

\* const j = secureRandomInt(i + 1): the bound of the index drawn at position i
DrawBound(k) == k + 1

\* The loop of secureShuffle / cryptoShuffle / unbiasedShuffle run on the copy
\* res with the indices js: js[k] is the j of the k-th pass, at i = Len(res) - k
RECURSIVE ShuffleFrom(_, _, _)
ShuffleFrom(res, js, k) ==
    IF k > Len(js) \/ Len(res) - k <= 0
    THEN res
    ELSE ShuffleFrom(Swap(res, Len(res) - k, js[k]), js, k + 1)

\* secureShuffle(array) when secureRandomInt returns js[1], js[2], ...
ShuffleWith(array, js) == ShuffleFrom(array, js, 1)

\* The sequences of indices a shuffle of n elements can draw: one index below
\* DrawBound(i) for each i = n-1 down to 1
IndexSeqs(n) ==
    IF n <= 1 THEN {<<>>}
    ELSE {js \in [1..(n - 1) -> 0..n] : \A k \in 1..(n - 1) : js[k] < DrawBound(n - k)}

\* Mutant: const result = array, the swap writes into the caller's array
CallerArrayAliased(array, a, b) == Swap(array, a, b)

\* const result = [...array]: result is a new array, so the caller's array
\* is what it was after result[a] and result[b] have been swapped
CallerArray(array, a, b) == array

Range(s) == {s[k] : k \in DOMAIN s}

\* Number of occurrences of e in s
Count(s, e) == Cardinality({k \in DOMAIN s : s[k] = e})

(***************************************************************************)
(* secureRandomInt                                                         *)
(***************************************************************************)
\* The redraw threshold: maxValid (web, popup) / limit (background)
MaxValid(im, max) ==
    IF im = "background"
    THEN (TwoPow32 \div max) * max
    ELSE (MaxUint32 \div max) * max

\* Mutant: the web utility returns 0 for a non-positive max, as the
\* extension's copies do
EntryNeverThrows(im, max) ==
    IF max <= 0 \/ (im = "popup" /\ max = 1) THEN "zero" ELSE "draw"

\* What happens before the do-while loop: "throw", "zero" (return 0) or "draw"
Entry(im, max) ==
    CASE im = "web"        -> IF max <= 0 THEN "throw" ELSE "draw"
      [] im = "background" -> IF max <= 0 THEN "zero" ELSE "draw"
      [] im = "popup"      -> IF max <= 0 \/ max = 1 THEN "zero" ELSE "draw"

\* Mutant: no rejection sampling, every draw is reduced modulo max
RejectedNever(im, max, v) == FALSE

\* while (value >= maxValid): the draw v is thrown away and another is read
Rejected(im, max, v) == v >= MaxValid(im, max)

\* Mutant: the draw is returned without the reduction
ReduceNone(v, max) == v

\* return value % max
Reduce(v, max) == v % max

(***************************************************************************)
(* selectWinners / selectWinnersWithAlternates: the part after the shuffle *)
(***************************************************************************)
\* Mutant: the seed decides which end of the shuffled list the winners are
\* taken from
SelectWinnersReturnSeeded(shuffled, count, usedSeed) ==
    LET actualCount == Min(count, Len(shuffled))
        from        == IF usedSeed = "s2" THEN Len(shuffled) - Max(actualCount, 0) ELSE 0
    IN  [winners |-> Slice(shuffled, from, from + Max(actualCount, 0)), seed |-> usedSeed]

SelectWinnersReturn(shuffled, count, usedSeed) ==
    LET actualCount == Min(count, Len(shuffled))
    IN  [winners |-> Slice(shuffled, 0, actualCount), seed |-> usedSeed]

\* Mutant: the alternates are sliced from the head of the shuffled list
SWAReturnOverlap(shuffled, winnerCount, alternateCount, sd) ==
    LET actualWinnerCount    == Min(winnerCount, Len(shuffled))
        remainingCount       == Len(shuffled) - actualWinnerCount
        actualAlternateCount == Min(alternateCount, remainingCount)
    IN  [winners    |-> Slice(shuffled, 0, actualWinnerCount),
         alternates |-> Slice(shuffled, 0, actualAlternateCount),
         seed       |-> sd]

SelectWinnersWithAlternatesReturn(shuffled, winnerCount, alternateCount, sd) ==
    LET actualWinnerCount    == Min(winnerCount, Len(shuffled))
        remainingCount       == Len(shuffled) - actualWinnerCount
        actualAlternateCount == Min(alternateCount, remainingCount)
    IN  [winners    |-> Slice(shuffled, 0, actualWinnerCount),
         alternates |-> Slice(shuffled, actualWinnerCount,
                              actualWinnerCount + actualAlternateCount),
         seed       |-> sd]

\* What the running call returns once its shuffle has finished
Finish(shuffled) ==
    CASE op = "secureShuffle" -> shuffled
      [] op = "selectWinners" -> SelectWinnersReturn(shuffled, args.count, seed)
      [] op = "selectWinnersWithAlternates" ->
            SelectWinnersWithAlternatesReturn(shuffled, args.winnerCount,
                                              args.alternateCount, seed)

NoArgs == [count |-> 0, winnerCount |-> 0, alternateCount |-> 0]

RandomInit ==
    /\ impl = "web"
    /\ op = "none"
    /\ pc = "idle"
    /\ pool = <<>>
    /\ args = NoArgs
    /\ result = <<>>
    /\ i = 0
    /\ rmax = 0
    /\ value = 0
    /\ seed = Undef
    /\ out = Undef
    /\ drawn = <<>>

\* secureRandomInt(max) called directly
CallSecureRandomInt ==
    /\ pc = "idle"
    /\ \E im \in Impls, max \in MaxArgRange :
        /\ impl' = im
        /\ op' = "secureRandomInt"
        /\ rmax' = max
        /\ pc' = CASE Entry(im, max) = "throw" -> "threw"
                   [] Entry(im, max) = "zero"  -> "done"
                   [] Entry(im, max) = "draw"  -> "draw"
        /\ out' = IF Entry(im, max) = "zero" THEN 0 ELSE Undef
    /\ pool' = <<>> /\ args' = NoArgs /\ result' = <<>> /\ i' = 0
    /\ value' = 0 /\ seed' = Undef /\ drawn' = <<>>
    /\ UNCHANGED <<eligVars, filterVars, hashVars, popupVars, verifyVars, collectVars, queueVars, appVars, followVars>>

\* secureShuffle(array) / cryptoShuffle(array) / unbiasedShuffle(array)
CallSecureShuffle ==
    /\ pc = "idle"
    /\ \E im \in Impls, L \in Pools :
        /\ impl' = im
        /\ pool' = L
        /\ result' = L
        /\ i' = Len(L) - 1
    /\ op' = "secureShuffle"
    /\ pc' = "shuffle"
    /\ args' = NoArgs /\ rmax' = 0 /\ value' = 0 /\ seed' = Undef /\ out' = Undef
    /\ drawn' = <<>>
    /\ UNCHANGED <<eligVars, filterVars, hashVars, popupVars, verifyVars, collectVars, queueVars, appVars, followVars>>

\* selectWinners(participants, count, seed?)
CallSelectWinners ==
    /\ pc = "idle"
    /\ \E L \in Pools, count \in CountRange, seedArg \in Seeds \cup {Undef, ""},
          generated \in Seeds :
        LET usedSeed == IF seedArg \in {Undef, ""} THEN generated ELSE seedArg
        IN  /\ pool' = L
            /\ args' = [NoArgs EXCEPT !.count = count]
            /\ seed' = usedSeed
            /\ IF Len(L) = 0
               THEN /\ pc' = "done"
                    /\ out' = [winners |-> <<>>, seed |-> usedSeed]
                    /\ result' = <<>>
                    /\ i' = 0
               ELSE /\ pc' = "shuffle"
                    /\ out' = Undef
                    /\ result' = L
                    /\ i' = Len(L) - 1
    /\ impl' = "web"
    /\ op' = "selectWinners"
    /\ rmax' = 0 /\ value' = 0 /\ drawn' = <<>>
    /\ UNCHANGED <<eligVars, filterVars, hashVars, popupVars, verifyVars, collectVars, queueVars, appVars, followVars>>

\* selectWinnersWithAlternates(participants, winnerCount, alternateCount)
CallSelectWinnersWithAlternates ==
    /\ pc = "idle"
    /\ \E L \in Pools, wc \in CountRange, ac \in CountRange, generated \in Seeds :
        /\ pool' = L
        /\ args' = [NoArgs EXCEPT !.winnerCount = wc, !.alternateCount = ac]
        /\ seed' = generated
        /\ result' = L
        /\ i' = Len(L) - 1
    /\ impl' = "web"
    /\ op' = "selectWinnersWithAlternates"
    /\ pc' = "shuffle"
    /\ rmax' = 0 /\ value' = 0 /\ out' = Undef /\ drawn' = <<>>
    /\ UNCHANGED <<eligVars, filterVars, hashVars, popupVars, verifyVars, collectVars, queueVars, appVars, followVars>>

\* for (let i = result.length - 1; i > 0; i--) { const j = secureRandomInt(i + 1); ...
ShuffleLoop ==
    /\ pc = "shuffle"
    /\ IF i > 0
       THEN /\ rmax' = DrawBound(i)
            /\ CASE Entry(impl, DrawBound(i)) = "draw" ->
                      /\ pc' = "draw"
                      /\ UNCHANGED <<result, i, out, pool, drawn>>
                 [] Entry(impl, DrawBound(i)) = "zero" ->
                      /\ result' = Swap(result, i, 0)
                      /\ pool' = CallerArray(pool, i, 0)
                      /\ drawn' = Append(drawn, 0)
                      /\ i' = i - 1
                      /\ pc' = "shuffle"
                      /\ UNCHANGED out
                 [] Entry(impl, DrawBound(i)) = "throw" ->
                      /\ pc' = "threw"
                      /\ UNCHANGED <<result, i, out, pool, drawn>>
       ELSE /\ pc' = "done"
            /\ out' = Finish(result)
            /\ UNCHANGED <<result, i, rmax, pool, drawn>>
    /\ UNCHANGED <<impl, op, args, value, seed>>
    /\ UNCHANGED <<eligVars, filterVars, hashVars, popupVars, verifyVars, collectVars, queueVars, appVars, followVars>>

\* do { crypto.getRandomValues(array); value = array[0]; } while (value >= maxValid);
\* return value % max;
Draw ==
    /\ pc = "draw"
    /\ \E v \in Uint32 :
        IF Rejected(impl, rmax, v)
        THEN /\ value' = v
             /\ UNCHANGED <<pc, result, i, out, pool, drawn>>
        ELSE /\ value' = 0
             /\ IF op = "secureRandomInt"
                THEN /\ out' = Reduce(v, rmax)
                     /\ pc' = "done"
                     /\ UNCHANGED <<result, i, pool, drawn>>
                ELSE /\ result' = Swap(result, i, Reduce(v, rmax))
                     /\ pool' = CallerArray(pool, i, Reduce(v, rmax))
                     /\ drawn' = Append(drawn, Reduce(v, rmax))
                     /\ i' = i - 1
                     /\ pc' = "shuffle"
                     /\ UNCHANGED out
    /\ UNCHANGED <<impl, op, args, rmax, seed>>
    /\ UNCHANGED <<eligVars, filterVars, hashVars, popupVars, verifyVars, collectVars, queueVars, appVars, followVars>>

\* The caller has its result (or its exception); the next call can start
Return ==
    /\ pc \in {"done", "threw"}
    /\ pc' = "idle"
    /\ op' = "none" /\ impl' = "web" /\ pool' = <<>> /\ args' = NoArgs
    /\ result' = <<>> /\ i' = 0 /\ rmax' = 0 /\ value' = 0
    /\ seed' = Undef /\ out' = Undef /\ drawn' = <<>>
    /\ UNCHANGED <<eligVars, filterVars, hashVars, popupVars, verifyVars, collectVars, queueVars, appVars, followVars>>

RandomNext ==
    \/ CallSecureRandomInt
    \/ CallSecureShuffle
    \/ CallSelectWinners
    \/ CallSelectWinnersWithAlternates
    \/ ShuffleLoop
    \/ Draw
    \/ Return

(***************************************************************************)
(* Optional values and strings                                             *)
(***************************************************************************)
\* A value that may be undefined (or null): <<>> when absent, <<v>> when present
Absent == <<>>
Some(v) == <<v>>
IsPresent(o) == o # <<>>
Val(o) == o[1]

\* Strings are sequences of characters, so that case folding is computed
LowerChar(c) ==
    CASE c = "A" -> "a"
      [] c = "B" -> "b"
      [] c = "X" -> "x"
      [] OTHER   -> c

\* String.prototype.toLowerCase
ToLowerCase(str) == [k \in DOMAIN str |-> LowerChar(str[k])]

\* /^[a-zA-Z0-9_]{1,15}$/.test(val)
UsernameChars == {"a", "A", "b", "B", "x", "X", "_"}
isValidUsername(val) ==
    /\ Len(val) >= 1
    /\ Len(val) <= UsernameMaxLen
    /\ \A k \in DOMAIN val : val[k] \in UsernameChars

(***************************************************************************)
(* JavaScript Set and Map, in insertion order                              *)
(***************************************************************************)
\* new Set(iterable): the distinct elements in order of first occurrence
RECURSIVE NewSet(_)
NewSet(list) ==
    IF list = <<>> THEN <<>>
    ELSE LET init == NewSet(SubSeq(list, 1, Len(list) - 1))
             last == list[Len(list)]
         IN  IF last \in Range(init) THEN init ELSE Append(init, last)

SetHas(set, e) == e \in Range(set)

\* [...set].filter(u => other.has(u))
SetFilterHas(set, other) ==
    LET keep(u) == SetHas(other, u) IN SelectSeq(set, keep)

\* users.map(u => u.username.toLowerCase())
LowerUsernames(users) == [k \in DOMAIN users |-> ToLowerCase(users[k].username)]

\* Mutant: the first record written for a handle stays
RECURSIVE MapSetAllKeepFirst(_, _)
MapSetAllKeepFirst(map, users) ==
    IF users = <<>> THEN map
    ELSE MapSetAllKeepFirst(map @@ (ToLowerCase(Head(users).username) :> Head(users)),
                            Tail(users))

\* users.forEach(u => map.set(u.username.toLowerCase(), u))
RECURSIVE MapSetAll(_, _)
MapSetAll(map, users) ==
    IF users = <<>> THEN map
    ELSE MapSetAll((ToLowerCase(Head(users).username) :> Head(users)) @@ map,
                   Tail(users))

\* map.get(key): undefined when the key is missing
MapGet(map, key) == IF key \in DOMAIN map THEN Some(map[key]) ELSE Absent

EmptyMap == [k \in {} |-> Absent]

\* Array.from(eligibleSet).map(username => map.get(username)).filter(Boolean)
RECURSIVE BuildUsers(_, _)
BuildUsers(set, map) ==
    IF set = <<>> THEN <<>>
    ELSE LET u == MapGet(map, Head(set))
         IN  (IF IsPresent(u) THEN <<Val(u)>> ELSE <<>>) \o BuildUsers(Tail(set), map)

(***************************************************************************)
(* extension/lib/eligibility.js: calculateEligible                         *)
(***************************************************************************)
\* A destructured parameter with a default value
Default(o, dflt) == IF IsPresent(o) THEN Val(o) ELSE dflt

\* if (requireRetweet && retweeters.length === 0) return [];
\* if (requireLike && likers.length === 0) return [];
LibEmptyRequired(retweeters, likers, requireRetweet, requireLike) ==
    \/ requireRetweet /\ Len(retweeters) = 0
    \/ requireLike /\ Len(likers) = 0

\* Mutant: with no requirement everybody who was collected is eligible
LibEligibleSetOpen(retweeters, likers, requireRetweet, requireLike) ==
    LET retweeterSet == NewSet(LowerUsernames(retweeters))
        likerSet     == NewSet(LowerUsernames(likers))
    IN  IF requireRetweet /\ requireLike
        THEN Some(SetFilterHas(retweeterSet, likerSet))
        ELSE IF requireRetweet THEN Some(retweeterSet)
        ELSE IF requireLike THEN Some(likerSet)
        ELSE Some(NewSet(retweeterSet \o likerSet))

\* Mutant: the usernames are compared without case folding
LibEligibleSetCaseSensitive(retweeters, likers, requireRetweet, requireLike) ==
    LET retweeterSet == NewSet([k \in DOMAIN retweeters |-> retweeters[k].username])
        likerSet     == NewSet([k \in DOMAIN likers |-> likers[k].username])
        afterRetweet == IF requireRetweet THEN Some(retweeterSet) ELSE Absent
    IN  IF requireLike
        THEN IF IsPresent(afterRetweet)
             THEN Some(SetFilterHas(Val(afterRetweet), likerSet))
             ELSE Some(likerSet)
        ELSE afterRetweet

\* eligibleSet after the two requirement blocks (Absent is null)
LibEligibleSet(retweeters, likers, requireRetweet, requireLike) ==
    LET retweeterSet == NewSet(LowerUsernames(retweeters))
        likerSet     == NewSet(LowerUsernames(likers))
        afterRetweet == IF requireRetweet THEN Some(retweeterSet) ELSE Absent
    IN  IF requireLike
        THEN IF IsPresent(afterRetweet)
             THEN Some(SetFilterHas(Val(afterRetweet), likerSet))
             ELSE Some(likerSet)
        ELSE afterRetweet

calculateEligibleLib(call) ==
    LET retweeters     == Default(call.retweeters, <<>>)
        likers         == Default(call.likers, <<>>)
        requireRetweet == Default(call.requireRetweet, TRUE)
        requireLike    == Default(call.requireLike, TRUE)
        eligibleSet    == LibEligibleSet(retweeters, likers, requireRetweet, requireLike)
        userMap        == MapSetAll(EmptyMap, likers \o retweeters)
    IN  IF LibEmptyRequired(retweeters, likers, requireRetweet, requireLike) THEN <<>>
        ELSE IF ~IsPresent(eligibleSet) THEN <<>>
        ELSE BuildUsers(Val(eligibleSet), userMap)

(***************************************************************************)
(* extension/background.js: giveawayData and its message handlers          *)
(***************************************************************************)
InitialGiveawayData ==
    [retweeters   |-> <<>>,
     likers       |-> <<>>,
     followers    |-> <<>>,    \* accountUsername -> user[], in insertion order
     requirements |-> [mustRetweet |-> TRUE, mustLike |-> TRUE, mustFollow |-> <<>>],
     eligible     |-> <<>>]

\* giveawayData.followers[key] || []
FollowersOf(followers, key) ==
    LET at == {k \in DOMAIN followers : followers[k].account = key}
    IN  IF at = {} THEN <<>>
        ELSE LET k == CHOOSE k \in at : TRUE
             IN  followers[k].users

\* giveawayData.followers[accountKey] = users
SetFollowers(followers, key, users) ==
    IF \E k \in DOMAIN followers : followers[k].account = key
    THEN [k \in DOMAIN followers |->
            IF followers[k].account = key
            THEN [account |-> key, users |-> users] ELSE followers[k]]
    ELSE Append(followers, [account |-> key, users |-> users])

\* Object.values(giveawayData.followers).flat()
RECURSIVE FlatFollowers(_)
FlatFollowers(followers) ==
    IF followers = <<>> THEN <<>>
    ELSE Head(followers).users \o FlatFollowers(Tail(followers))

\* eligibleSet = eligibleSet ? new Set([...eligibleSet].filter(u => names.has(u))) : names
Intersect(eligibleSet, names) ==
    IF IsPresent(eligibleSet)
    THEN Some(SetFilterHas(Val(eligibleSet), names))
    ELSE Some(names)

\* for (const account of req.mustFollow) { ... }
RECURSIVE IntersectFollowers(_, _, _)
IntersectFollowers(eligibleSet, mustFollow, followers) ==
    IF mustFollow = <<>> THEN eligibleSet
    ELSE LET users == FollowersOf(followers, ToLowerCase(Head(mustFollow)))
             followerUsernames == NewSet(LowerUsernames(users))
         IN  IntersectFollowers(Intersect(eligibleSet, followerUsernames),
                                Tail(mustFollow), followers)

\* !existing.followerCount: the count is undefined or 0
NoFollowerCount(u) == ~IsPresent(u.followerCount) \/ Val(u.followerCount) = 0

\* Object.values(followers).flat().forEach(u => { if (!existing || ...) map.set(...) })
RECURSIVE MergeFollowers(_, _)
MergeFollowers(map, users) ==
    IF users = <<>> THEN map
    ELSE LET u        == Head(users)
             key      == ToLowerCase(u.username)
             existing == MapGet(map, key)
             next     == IF ~IsPresent(existing) \/ NoFollowerCount(Val(existing))
                         THEN (key :> u) @@ map ELSE map
         IN  MergeFollowers(next, Tail(users))

\* Mutant: the must-follow accounts are not intersected
BgEligibleSetNoFollow(gd) ==
    LET req == gd.requirements
        afterRetweet == IF req.mustRetweet
                        THEN Intersect(Absent, NewSet(LowerUsernames(gd.retweeters)))
                        ELSE Absent
    IN  IF req.mustLike
        THEN Intersect(afterRetweet, NewSet(LowerUsernames(gd.likers)))
        ELSE afterRetweet

\* eligibleSet after the retweet, like and must-follow blocks (Absent is null)
BgEligibleSet(gd) ==
    LET req == gd.requirements
        afterRetweet == IF req.mustRetweet
                        THEN Intersect(Absent, NewSet(LowerUsernames(gd.retweeters)))
                        ELSE Absent
        afterLike    == IF req.mustLike
                        THEN Intersect(afterRetweet, NewSet(LowerUsernames(gd.likers)))
                        ELSE afterRetweet
    IN  IntersectFollowers(afterLike, req.mustFollow, gd.followers)

calculateEligibleBg(gd) ==
    LET req         == gd.requirements
        eligibleSet == BgEligibleSet(gd)
        userDataMap == MergeFollowers(MapSetAll(EmptyMap, gd.likers \o gd.retweeters),
                                      FlatFollowers(gd.followers))
    IN  IF req.mustRetweet /\ Len(gd.retweeters) = 0 THEN <<>>
        ELSE IF req.mustLike /\ Len(gd.likers) = 0 THEN <<>>
        ELSE IF ~IsPresent(eligibleSet) THEN <<>>
        ELSE BuildUsers(Val(eligibleSet), userDataMap)

\* val.every(u => u && typeof u === 'object' && isValidUsername(u.username))
isValidUserArray(val) == \A k \in DOMAIN val : isValidUsername(val[k].username)

\* sendResponse(...)
NoResponse  == [kind |-> "none", eligible |-> <<>>]
Success     == [kind |-> "success", eligible |-> <<>>]
Failure     == [kind |-> "error", eligible |-> <<>>]
EligibleResponse(list) == [kind |-> "eligible", eligible |-> list]

NoCall == [called |-> FALSE, retweeters |-> Absent, likers |-> Absent,
           requireRetweet |-> Absent, requireLike |-> Absent]

EligInit ==
    /\ giveawayData = InitialGiveawayData
    /\ response = NoResponse
    /\ libCall = NoCall
    /\ libResult = <<>>

\* ---- inputs of the eligibility model ----
EligUsers ==
    { [username |-> <<"a">>, followerCount |-> Some(7)],
      [username |-> <<"A">>, followerCount |-> Absent],
      [username |-> <<"b">>, followerCount |-> Some(0)] }

\* A record whose username the background script's validation refuses
InvalidUser == [username |-> <<"@", "a">>, followerCount |-> Absent]

\* Account names in messages: one in upper case, one the validation refuses
AccountNames == {<<"X">>, <<"@", "x">>}

\* req.mustFollow of a SET_REQUIREMENTS message: not an array, or an array
MustFollowArgs ==
    {Absent, Some(<<>>), Some(<< <<"X">> >>), Some(<< <<"@", "x">> >>),
     Some(<< <<"@", "x">>, <<"X">> >>)}

ListsOf(S, n) == UNION {[1..k -> S] : k \in 0..n}

Option(S) == {Absent} \cup {Some(v) : v \in S}

\* calculateEligible({ retweeters, likers, requireRetweet, requireLike })
LibCalculateEligible ==
    /\ response = NoResponse
    /\ ~libCall.called
    /\ \E r, l \in Option(ListsOf(EligUsers \cup {InvalidUser}, MaxList)),
          rr, rl \in Option(BOOLEAN) :
        LET call == [called |-> TRUE, retweeters |-> r, likers |-> l,
                     requireRetweet |-> rr, requireLike |-> rl]
        IN  /\ libCall' = call
            /\ libResult' = calculateEligibleLib(call)
    /\ UNCHANGED <<giveawayData, response>>
    /\ UNCHANGED <<randomVars, filterVars, hashVars, popupVars, verifyVars, collectVars, queueVars, appVars, followVars>>

\* The test or popup code that called calculateEligible has its result
LibReturn ==
    /\ libCall.called
    /\ libCall' = NoCall
    /\ libResult' = <<>>
    /\ UNCHANGED <<giveawayData, response>>
    /\ UNCHANGED <<randomVars, filterVars, hashVars, popupVars, verifyVars, collectVars, queueVars, appVars, followVars>>

\* The users arrays of the UPDATE_* messages: the lists of valid users, and
\* one array that the validation refuses
MessageLists(n) == ListsOf(EligUsers, n) \cup {<<InvalidUser>>}

\* Followers as the followers page shows them: one of them is the user A of
\* the other lists, here with a follower count
FollowerUsers ==
    { [username |-> <<"A">>, followerCount |-> Some(3)],
      [username |-> <<"b">>, followerCount |-> Some(0)] }

FollowerLists(n) == ListsOf(FollowerUsers, n) \cup {<<InvalidUser>>}

\* case 'SET_REQUIREMENTS'
SetRequirements ==
    /\ ~libCall.called
    /\ \E msg \in Option([mustRetweet : BOOLEAN, mustLike : BOOLEAN,
                          mustFollow : MustFollowArgs]) :
        IF ~IsPresent(msg)
        THEN /\ response' = Failure
             /\ UNCHANGED giveawayData
        ELSE LET req == Val(msg)
                 valid(u) == isValidUsername(u)
                 accounts == IF IsPresent(req.mustFollow)
                             THEN LET kept == SelectSeq(Val(req.mustFollow), valid)
                                  IN  [k \in DOMAIN kept |-> ToLowerCase(kept[k])]
                             ELSE <<>>
             IN  /\ giveawayData' =
                        [giveawayData EXCEPT !.requirements =
                            [mustRetweet |-> req.mustRetweet,
                             mustLike    |-> req.mustLike,
                             mustFollow  |-> accounts]]
                 /\ response' = Success
    /\ UNCHANGED <<libCall, libResult>>
    /\ UNCHANGED <<randomVars, filterVars, hashVars, popupVars, verifyVars, collectVars, queueVars, appVars, followVars>>

\* case 'UPDATE_RETWEETERS'
UpdateRetweeters ==
    /\ ~libCall.called
    /\ \E users \in MessageLists(MaxBgList) :
        IF ~isValidUserArray(users)
        THEN /\ response' = Failure
             /\ UNCHANGED giveawayData
        ELSE /\ giveawayData' = [giveawayData EXCEPT !.retweeters = users]
             /\ response' = Success
    /\ UNCHANGED <<libCall, libResult>>
    /\ UNCHANGED <<randomVars, filterVars, hashVars, popupVars, verifyVars, collectVars, queueVars, appVars, followVars>>

\* case 'UPDATE_LIKERS'
UpdateLikers ==
    /\ ~libCall.called
    /\ \E users \in MessageLists(MaxBgList) :
        IF ~isValidUserArray(users)
        THEN /\ response' = Failure
             /\ UNCHANGED giveawayData
        ELSE /\ giveawayData' = [giveawayData EXCEPT !.likers = users]
             /\ response' = Success
    /\ UNCHANGED <<libCall, libResult>>
    /\ UNCHANGED <<randomVars, filterVars, hashVars, popupVars, verifyVars, collectVars, queueVars, appVars, followVars>>

\* case 'UPDATE_FOLLOWERS'
UpdateFollowers ==
    /\ ~libCall.called
    /\ \E account \in AccountNames,
          users \in FollowerLists(MaxBgList) :
        IF ~isValidUsername(account) \/ ~isValidUserArray(users)
        THEN /\ response' = Failure
             /\ UNCHANGED giveawayData
        ELSE /\ giveawayData' =
                    [giveawayData EXCEPT !.followers =
                        SetFollowers(@, ToLowerCase(account), users)]
             /\ response' = Success
    /\ UNCHANGED <<libCall, libResult>>
    /\ UNCHANGED <<randomVars, filterVars, hashVars, popupVars, verifyVars, collectVars, queueVars, appVars, followVars>>

\* case 'CALCULATE_ELIGIBLE'
CalculateEligible ==
    /\ ~libCall.called
    /\ LET eligible == calculateEligibleBg(giveawayData)
       IN  /\ giveawayData' = [giveawayData EXCEPT !.eligible = eligible]
           /\ response' = EligibleResponse(eligible)
    /\ UNCHANGED <<libCall, libResult>>
    /\ UNCHANGED <<randomVars, filterVars, hashVars, popupVars, verifyVars, collectVars, queueVars, appVars, followVars>>

\* case 'RESET'
Reset ==
    /\ ~libCall.called
    /\ giveawayData' = InitialGiveawayData
    /\ response' = Success
    /\ UNCHANGED <<libCall, libResult>>
    /\ UNCHANGED <<randomVars, filterVars, hashVars, popupVars, verifyVars, collectVars, queueVars, appVars, followVars>>

EligNext ==
    \/ LibCalculateEligible
    \/ LibReturn
    \/ SetRequirements
    \/ UpdateRetweeters
    \/ UpdateLikers
    \/ UpdateFollowers
    \/ CalculateEligible
    \/ Reset

(***************************************************************************)
(* Bot filter: filter.ts (filterParticipants) and eligibility.js           *)
(* (applyFilters)                                                          *)
(***************************************************************************)
\* 1000 * 60 * 60 * 24
MsPerDay == 1000 * 60 * 60 * 24

\* new Date(): the time of the call, in milliseconds
Now == 20 * MsPerDay

\* A Date (or, in the extension, a date string handed to new Date): either a
\* time in milliseconds or an Invalid Date, whose getTime() is NaN
DateAt(t) == [valid |-> TRUE, time |-> t]
InvalidDate == [valid |-> FALSE, time |-> 0]

\* A URL is a sequence of segments; includes(pattern) finds a segment
Includes(url, pattern) == \E k \in DOMAIN url : url[k] = pattern

LowerSegment(seg) ==
    CASE seg = "DEFAULT_PROFILE" -> "default_profile"
      [] OTHER -> seg

UrlToLowerCase(url) == [k \in DOMAIN url |-> LowerSegment(url[k])]

\* defaultPatterns; the three longer patterns of the source contain
\* 'default_profile', so a URL matches one of them only if it matches that
DefaultPatterns == {"default_profile", "default-profile"}

isDefaultAvatar(avatarUrl) ==
    LET lowerUrl == UrlToLowerCase(avatarUrl)
    IN  \E pattern \in DefaultPatterns : Includes(lowerUrl, pattern)

\* !x for an optional string or URL: undefined or empty
Falsy(o) == ~IsPresent(o) \/ Val(o) = <<>>

hasDefaultProfile(participant) ==
    \/ Falsy(participant.avatarUrl)
    \/ isDefaultAvatar(Val(participant.avatarUrl))
    \/ Falsy(participant.bio) /\ Falsy(participant.displayName)

\* Math.floor(diffMs / (1000 * 60 * 60 * 24)); only called on a valid date
getAccountAgeDays(createdAt) == (Now - createdAt.time) \div MsPerDay

\* u.toLowerCase().replace(/^@/, '')
StripAt(str) == IF str # <<>> /\ str[1] = "@" THEN Tail(str) ELSE str

normalizedBlacklist(cfg) ==
    {StripAt(ToLowerCase(cfg.blacklist[k])) : k \in DOMAIN cfg.blacklist}

\* Mutant: the duplicate check compares the usernames as written
NormalizedUsernameExact(participant) == participant.username

\* const normalizedUsername = participant.username.toLowerCase()
NormalizedUsername(participant) == ToLowerCase(participant.username)

\* Mutant: an unknown follower count is counted as 0
LowFollowersUnknownIsZero(participant, cfg) ==
    /\ cfg.minFollowers > 0
    /\ (IF IsPresent(participant.followerCount)
        THEN Val(participant.followerCount) ELSE 0) < cfg.minFollowers

\* Mutant: a follower count equal to the minimum is rejected too
LowFollowersInclusive(participant, cfg) ==
    /\ cfg.minFollowers > 0
    /\ IsPresent(participant.followerCount)
    /\ Val(participant.followerCount) <= cfg.minFollowers

LowFollowers(participant, cfg) ==
    /\ cfg.minFollowers > 0
    /\ IsPresent(participant.followerCount)
    /\ Val(participant.followerCount) < cfg.minFollowers

LowFollowing(participant, cfg) ==
    /\ cfg.minFollowing > 0
    /\ IsPresent(participant.followingCount)
    /\ Val(participant.followingCount) < cfg.minFollowing

\* NaN < minAccountAgeDays is false for an Invalid Date
NewAccount(participant, cfg) ==
    /\ cfg.minAccountAgeDays > 0
    /\ IsPresent(participant.createdAt)
    /\ Val(participant.createdAt).valid
    /\ getAccountAgeDays(Val(participant.createdAt)) < cfg.minAccountAgeDays

NoAvatar(participant, cfg) ==
    /\ cfg.requireAvatar
    /\ (Falsy(participant.avatarUrl) \/ isDefaultAvatar(Val(participant.avatarUrl)))

NoBio(participant, cfg) == cfg.requireBio /\ Falsy(participant.bio)

LowTweets(participant, cfg) ==
    /\ cfg.minTweets > 0
    /\ IsPresent(participant.tweetCount)
    /\ Val(participant.tweetCount) < cfg.minTweets

\* !participant.isVerified: undefined or false
NotVerified(participant, cfg) ==
    /\ cfg.onlyVerified
    /\ (~IsPresent(participant.isVerified) \/ ~Val(participant.isVerified))

DefaultProfile(participant, cfg) ==
    cfg.excludeDefaultProfile /\ hasDefaultProfile(participant)

If(cond, reason) == IF cond THEN <<reason>> ELSE <<>>

\* Mutant: the checks form an else-if chain, only the first reason is pushed
ReasonsForFirstOnly(participant, cfg, seenUsernames) ==
    LET all ==
               If(NormalizedUsername(participant) \in seenUsernames, "duplicate")
            \o If(NormalizedUsername(participant) \in normalizedBlacklist(cfg), "blacklisted")
            \o If(LowFollowers(participant, cfg), "low_followers")
            \o If(LowFollowing(participant, cfg), "low_following")
            \o If(NewAccount(participant, cfg), "new_account")
            \o If(NoAvatar(participant, cfg), "no_avatar")
            \o If(NoBio(participant, cfg), "no_bio")
            \o If(LowTweets(participant, cfg), "low_tweets")
            \o If(NotVerified(participant, cfg), "not_verified")
            \o If(DefaultProfile(participant, cfg), "default_profile")
    IN  IF all = <<>> THEN <<>> ELSE <<Head(all)>>

\* The reasons pushed for one participant, in the order of the checks
ReasonsFor(participant, cfg, seenUsernames) ==
       If(NormalizedUsername(participant) \in seenUsernames, "duplicate")
    \o If(NormalizedUsername(participant) \in normalizedBlacklist(cfg), "blacklisted")
    \o If(LowFollowers(participant, cfg), "low_followers")
    \o If(LowFollowing(participant, cfg), "low_following")
    \o If(NewAccount(participant, cfg), "new_account")
    \o If(NoAvatar(participant, cfg), "no_avatar")
    \o If(NoBio(participant, cfg), "no_bio")
    \o If(LowTweets(participant, cfg), "low_tweets")
    \o If(NotVerified(participant, cfg), "not_verified")
    \o If(DefaultProfile(participant, cfg), "default_profile")

FilterReasons ==
    {"low_followers", "low_following", "new_account", "no_avatar", "no_bio",
     "low_tweets", "blacklisted", "not_verified", "default_profile", "duplicate"}

ZeroStats == [total |-> 0, passed |-> 0, filtered |-> 0,
              byReason |-> [r \in FilterReasons |-> 0]]

\* Mutant: a handle counts as seen only once a record of it was accepted
RECURSIVE FilterLoopSeenWhenAccepted(_, _, _)
FilterLoopSeenWhenAccepted(list, cfg, acc) ==
    IF list = <<>> THEN acc
    ELSE LET participant == Head(list)
             reasons     == ReasonsFor(participant, cfg, acc.seenUsernames)
             next ==
               [seenUsernames |-> IF reasons = <<>>
                                  THEN acc.seenUsernames \cup {NormalizedUsername(participant)}
                                  ELSE acc.seenUsernames,
                passed   |-> IF reasons = <<>>
                             THEN Append(acc.passed, participant) ELSE acc.passed,
                filtered |-> IF reasons = <<>> THEN acc.filtered
                             ELSE Append(acc.filtered,
                                         [participant |-> participant,
                                          reasons |-> reasons]),
                byReason |-> [r \in FilterReasons |->
                                acc.byReason[r] + (IF r \in Range(reasons) THEN 1 ELSE 0)]]
         IN  FilterLoopSeenWhenAccepted(Tail(list), cfg, next)

\* for (const participant of participants) { ... }
RECURSIVE FilterLoop(_, _, _)
FilterLoop(list, cfg, acc) ==
    IF list = <<>> THEN acc
    ELSE LET participant == Head(list)
             reasons     == ReasonsFor(participant, cfg, acc.seenUsernames)
             next ==
               [seenUsernames |-> acc.seenUsernames \cup {NormalizedUsername(participant)},
                passed   |-> IF reasons = <<>>
                             THEN Append(acc.passed, participant) ELSE acc.passed,
                filtered |-> IF reasons = <<>> THEN acc.filtered
                             ELSE Append(acc.filtered,
                                         [participant |-> participant,
                                          reasons |-> reasons]),
                byReason |-> [r \in FilterReasons |->
                                acc.byReason[r] + (IF r \in Range(reasons) THEN 1 ELSE 0)]]
         IN  FilterLoop(Tail(list), cfg, next)

\* Mutant: stats.passed and stats.filtered keep the zeros they were
\* initialised with
filterParticipantsStaleStats(list, cfg) ==
    LET acc == FilterLoop(list, cfg,
                          [seenUsernames |-> {}, passed |-> <<>>, filtered |-> <<>>,
                           byReason |-> ZeroStats.byReason])
    IN  [passed   |-> acc.passed,
         filtered |-> acc.filtered,
         stats    |-> [total    |-> Len(list),
                       passed   |-> 0,
                       filtered |-> 0,
                       byReason |-> acc.byReason]]

filterParticipants(list, cfg) ==
    LET acc == FilterLoop(list, cfg,
                          [seenUsernames |-> {}, passed |-> <<>>, filtered |-> <<>>,
                           byReason |-> ZeroStats.byReason])
    IN  [passed   |-> acc.passed,
         filtered |-> acc.filtered,
         stats    |-> [total    |-> Len(list),
                       passed   |-> Len(acc.passed),
                       filtered |-> Len(acc.filtered),
                       byReason |-> acc.byReason]]

\* Mutant: a user without a follower count is dropped when the filter is set
KeepsFollowersStrict(u, filters) ==
    ~(filters.minFollowers > 0 /\
      (~IsPresent(u.followerCount) \/ Val(u.followerCount) < filters.minFollowers))

\* if (minFollowers > 0 && u.followerCount !== undefined) { if (... < ...) return false }
KeepsFollowers(u, filters) ==
    ~(filters.minFollowers > 0 /\ IsPresent(u.followerCount)
      /\ Val(u.followerCount) < filters.minFollowers)

KeepsTweets(u, filters) ==
    ~(filters.minTweets > 0 /\ IsPresent(u.tweetCount)
      /\ Val(u.tweetCount) < filters.minTweets)

\* minDate = now - minAccountAgeDays days; created > minDate is false for an
\* Invalid Date
KeepsAge(u, filters) ==
    ~(filters.minAccountAgeDays > 0 /\ IsPresent(u.createdAt)
      /\ Val(u.createdAt).valid
      /\ Val(u.createdAt).time > Now - filters.minAccountAgeDays * MsPerDay)

\* if (requireAvatar && u.avatarUrl) { if (u.avatarUrl.includes('default_profile')) ... }
KeepsAvatar(u, filters) ==
    ~(filters.requireAvatar /\ ~Falsy(u.avatarUrl)
      /\ Includes(Val(u.avatarUrl), "default_profile"))

\* applyFilters(users, filters): users.filter(u => ...)
applyFilters(users, filters) ==
    LET keep(u) == /\ KeepsFollowers(u, filters)
                   /\ KeepsTweets(u, filters)
                   /\ KeepsAge(u, filters)
                   /\ KeepsAvatar(u, filters)
    IN  SelectSeq(users, keep)

\* ---- pickWinners of the background script: the filters before the shuffle ----
\* typeof u.followerCount === 'number' && u.followerCount >= filters.minFollowers
BgKeepsFollowers(u, filters) ==
    filters.minFollowers > 0 =>
        (IsPresent(u.followerCount) /\ Val(u.followerCount) >= filters.minFollowers)

BgKeepsTweets(u, filters) ==
    filters.minTweets > 0 =>
        (IsPresent(u.tweetCount) /\ Val(u.tweetCount) >= filters.minTweets)

\* minDate is now minus minAccountAgeDays days; a missing createdAt returns
\* false, and so does the comparison with an Invalid Date
BgKeepsAge(u, filters) ==
    filters.minAccountAgeDays > 0 =>
        /\ IsPresent(u.createdAt)
        /\ Val(u.createdAt).valid
        /\ Val(u.createdAt).time <= Now - filters.minAccountAgeDays * MsPerDay

\* u.avatarUrl && ... && !u.avatarUrl.includes('default_profile')
BgKeepsAvatar(u, filters) ==
    filters.requireAvatar =>
        (~Falsy(u.avatarUrl) /\ ~Includes(Val(u.avatarUrl), "default_profile"))

\* new Set(filters.blacklist.filter(isValidUsername).map(u => u.toLowerCase()))
BgBlacklistSet(filters) ==
    {ToLowerCase(filters.blacklist[k]) :
        k \in {j \in DOMAIN filters.blacklist : isValidUsername(filters.blacklist[j])}}

BgNotBlacklisted(u, filters) == ToLowerCase(u.username) \notin BgBlacklistSet(filters)

\* The candidates pickWinners hands to cryptoShuffle
pickWinnersCandidates(eligible, filters) ==
    LET keep(u) == /\ BgKeepsFollowers(u, filters)
                   /\ BgKeepsTweets(u, filters)
                   /\ BgKeepsAge(u, filters)
                   /\ BgKeepsAvatar(u, filters)
                   /\ BgNotBlacklisted(u, filters)
    IN  SelectSeq(eligible, keep)

\* ---- inputs of the filter model ----
\* A complete profile; its counts and its age sit exactly on the thresholds
\* that the configurations below use
BaseParticipant(name) ==
    [username       |-> name,
     displayName    |-> Some(<<"name">>),
     followerCount  |-> Some(5),
     followingCount |-> Some(5),
     tweetCount     |-> Some(5),
     createdAt      |-> Some(DateAt(Now - 2 * MsPerDay)),
     avatarUrl      |-> Some(<<"https://pbs.twimg.com/", "me.jpg">>),
     bio            |-> Some(<<"bio">>),
     isVerified     |-> Some(TRUE)]

\* Only the handle is known
UnknownParticipant(name) ==
    [username       |-> name,
     displayName    |-> Absent,
     followerCount  |-> Absent,
     followingCount |-> Absent,
     tweetCount     |-> Absent,
     createdAt      |-> Absent,
     avatarUrl      |-> Absent,
     bio            |-> Absent,
     isVerified     |-> Absent]

FilterNames == {<<"a">>, <<"A">>, <<"b">>}

\* The base profile with one field changed
Variants(name) ==
    LET base == BaseParticipant(name)
    IN  { [base EXCEPT !.followerCount = Absent],
          [base EXCEPT !.followingCount = Absent],
          [base EXCEPT !.followingCount = Some(4)],
          [base EXCEPT !.tweetCount = Absent],
          [base EXCEPT !.tweetCount = Some(4)],
          [base EXCEPT !.createdAt = Absent],
          [base EXCEPT !.createdAt = Some(InvalidDate)],
          [base EXCEPT !.createdAt = Some(DateAt(Now - 2 * MsPerDay + 1))],
          [base EXCEPT !.createdAt = Some(DateAt(Now + 1))],
          [base EXCEPT !.avatarUrl = Absent],
          [base EXCEPT !.avatarUrl =
              Some(<<"https://abs.twimg.com/sticky/", "default_profile", "_images/x.png">>)],
          [base EXCEPT !.avatarUrl =
              Some(<<"https://abs.twimg.com/sticky/", "DEFAULT_PROFILE", "_images/x.png">>)],
          [base EXCEPT !.bio = Some(<<>>)],
          [base EXCEPT !.isVerified = Some(FALSE)] }

FilterParticipants ==
    {BaseParticipant(n) : n \in FilterNames}
        \cup {[BaseParticipant(n) EXCEPT !.followerCount = Some(4)] : n \in FilterNames}
        \cup {UnknownParticipant(n) : n \in FilterNames}
        \cup Variants(<<"b">>)
        \cup {BaseParticipant(<<"@", "a">>)}

AllOff ==
    [minFollowers |-> 0, minFollowing |-> 0, minAccountAgeDays |-> 0,
     requireAvatar |-> FALSE, requireBio |-> FALSE, minTweets |-> 0,
     blacklist |-> <<>>, onlyVerified |-> FALSE, excludeDefaultProfile |-> FALSE]

AllOn ==
    [minFollowers |-> 5, minFollowing |-> 5, minAccountAgeDays |-> 2,
     requireAvatar |-> TRUE, requireBio |-> TRUE, minTweets |-> 5,
     blacklist |-> << <<"@", "A">> >>, onlyVerified |-> TRUE,
     excludeDefaultProfile |-> TRUE]

\* The four thresholds and nothing else
ThresholdsOnly ==
    [AllOff EXCEPT !.minFollowers = AllOn.minFollowers,
                   !.minFollowing = AllOn.minFollowing,
                   !.minTweets = AllOn.minTweets,
                   !.minAccountAgeDays = AllOn.minAccountAgeDays]

\* Nothing enabled, one predicate enabled, all but one enabled, all enabled,
\* and the thresholds alone
FilterConfigs ==
    {AllOff, AllOn, ThresholdsOnly}
        \cup {[AllOff EXCEPT ![f] = AllOn[f]] : f \in DOMAIN AllOff}
        \cup {[AllOn EXCEPT ![f] = AllOff[f]] : f \in DOMAIN AllOn}

NoResult == [passed |-> <<>>, filtered |-> <<>>, stats |-> ZeroStats]

FilterInit ==
    /\ participants = <<>>
    /\ config = AllOff
    /\ filterOp = "none"
    /\ filterResult = NoResult

\* filterParticipants(participants, config)
CallFilterParticipants ==
    /\ filterOp = "none"
    /\ \E list \in ListsOf(FilterParticipants, MaxLen), cfg \in FilterConfigs :
        /\ participants' = list
        /\ config' = cfg
        /\ filterResult' = filterParticipants(list, cfg)
    /\ filterOp' = "filterParticipants"
    /\ UNCHANGED <<randomVars, eligVars, hashVars, popupVars, verifyVars, collectVars, queueVars, appVars, followVars>>

\* applyFilters(users, filters); the filters object has the four fields the
\* function reads (an omitted field defaults to 0 / false, its disabled value)
CallApplyFilters ==
    /\ filterOp = "none"
    /\ \E list \in ListsOf(FilterParticipants, MaxLen), cfg \in FilterConfigs :
        /\ participants' = list
        /\ config' = cfg
        /\ filterResult' = [NoResult EXCEPT !.passed = applyFilters(list, cfg)]
    /\ filterOp' = "applyFilters"
    /\ UNCHANGED <<randomVars, eligVars, hashVars, popupVars, verifyVars, collectVars, queueVars, appVars, followVars>>

\* pickWinners(count, filters) of the background script, up to the shuffle:
\* giveawayData.eligible is the input list, the candidates are the result
\* (the shuffle and the slice are those of the random engine)
CallPickWinners ==
    /\ filterOp = "none"
    /\ \E list \in ListsOf(FilterParticipants, MaxLen), cfg \in FilterConfigs :
        /\ participants' = list
        /\ config' = cfg
        /\ filterResult' = [NoResult EXCEPT !.passed = pickWinnersCandidates(list, cfg)]
    /\ filterOp' = "pickWinners"
    /\ UNCHANGED <<randomVars, eligVars, hashVars, popupVars, verifyVars, collectVars, queueVars, appVars, followVars>>

\* The caller has the result
FilterReturn ==
    /\ filterOp # "none"
    /\ participants' = <<>>
    /\ config' = AllOff
    /\ filterOp' = "none"
    /\ filterResult' = NoResult
    /\ UNCHANGED <<randomVars, eligVars, hashVars, popupVars, verifyVars, collectVars, queueVars, appVars, followVars>>

FilterNext ==
    \/ CallFilterParticipants
    \/ CallApplyFilters
    \/ CallPickWinners
    \/ FilterReturn

(***************************************************************************)
(* Verification hashing (web utility hash.ts)                              *)
(***************************************************************************)
\* Longest participant list handed to hashParticipants
MaxHashList == 3

\* Usernames the parsers let through: the manual parser validates against
\* /^[a-zA-Z0-9_]{1,15}$/, the JSON parser (extractUsername) only strips a
\* leading @ and drops the empty string, so any other character passes.
HashHandles == {<<"a">>, <<"A">>, <<"b">>, <<"a", "b">>, <<"a", ",", "b">>}

HashParticipantLists ==
    ListsOf({[username |-> h] : h \in HashHandles}, MaxHashList)

\* Collation rank of a character (punctuation before letters, lower case
\* before upper case)
CharRank(c) ==
    CASE c = "," -> 1
      [] c = "_" -> 2
      [] c = "@" -> 3
      [] c = "a" -> 4
      [] c = "A" -> 5
      [] c = "b" -> 6
      [] c = "B" -> 7
      [] c = "x" -> 8
      [] c = "X" -> 9
      [] OTHER   -> 10

\* String.prototype.localeCompare: negative, zero or positive
RECURSIVE localeCompare(_, _)
localeCompare(s, t) ==
    IF s = <<>> /\ t = <<>> THEN 0
    ELSE IF s = <<>> THEN 0 - 1
    ELSE IF t = <<>> THEN 1
    ELSE IF CharRank(Head(s)) < CharRank(Head(t)) THEN 0 - 1
    ELSE IF CharRank(Head(s)) > CharRank(Head(t)) THEN 1
    ELSE localeCompare(Tail(s), Tail(t))

\* (a, b) => a.username.toLowerCase().localeCompare(b.username.toLowerCase())
CompareUsernames(a, b) ==
    localeCompare(ToLowerCase(a.username), ToLowerCase(b.username))

\* Array.prototype.sort is stable: an element goes after every element that
\* does not compare greater than it
InsertSorted(sorted, p) ==
    LET n == Cardinality({k \in DOMAIN sorted : CompareUsernames(sorted[k], p) <= 0})
    IN  SubSeq(sorted, 1, n) \o <<p>> \o SubSeq(sorted, n + 1, Len(sorted))

\* Mutant: the list is hashed in the order it was collected
SortedAsCollected(list) == list

\* [...participants].sort(compare)
RECURSIVE Sorted(_)
Sorted(list) ==
    IF list = <<>> THEN <<>>
    ELSE InsertSorted(Sorted(SubSeq(list, 1, Len(list) - 1)), list[Len(list)])

\* Array.prototype.join(',')
RECURSIVE Join(_)
Join(strs) ==
    IF strs = <<>> THEN <<>>
    ELSE IF Len(strs) = 1 THEN strs[1]
    ELSE strs[1] \o <<",">> \o Join(Tail(strs))

\* sorted.map(p => p.username.toLowerCase()).join(',')
Canonical(list) ==
    LET sorted == Sorted(list)
    IN  Join([k \in DOMAIN sorted |-> ToLowerCase(sorted[k].username)])

\* SHA-256 is not computed: the digest is a tagged copy of the message, that
\* is, an injective function of it
sha256(message) == <<"sha256", message>>

\* hashParticipants(participants); the canonical string is kept next to the
\* returned hash
hashParticipants(list) ==
    [done |-> TRUE, canonical |-> Canonical(list), hash |-> sha256(Canonical(list))]

NoHash == [done |-> FALSE, canonical |-> <<>>, hash |-> <<>>]

HashInit ==
    /\ hashLists = <<(<<>>), (<<>>)>>
    /\ hashOut = <<NoHash, NoHash>>

\* The first draw: hashParticipants(state.participants)
HashFirst ==
    /\ ~hashOut[1].done
    /\ \E list \in HashParticipantLists :
        /\ hashLists' = [hashLists EXCEPT ![1] = list]
        /\ hashOut' = [hashOut EXCEPT ![1] = hashParticipants(list)]
    /\ UNCHANGED <<randomVars, eligVars, filterVars, popupVars, verifyVars, collectVars, queueVars, appVars, followVars>>

\* A second draw (or a verifier's recomputation) over another list
HashSecond ==
    /\ ~hashOut[2].done
    /\ \E list \in HashParticipantLists :
        /\ hashLists' = [hashLists EXCEPT ![2] = list]
        /\ hashOut' = [hashOut EXCEPT ![2] = hashParticipants(list)]
    /\ UNCHANGED <<randomVars, eligVars, filterVars, popupVars, verifyVars, collectVars, queueVars, appVars, followVars>>

\* Both hashes were compared; the next pair of draws starts
HashReturn ==
    /\ hashOut[1].done
    /\ hashOut[2].done
    /\ hashLists' = <<(<<>>), (<<>>)>>
    /\ hashOut' = <<NoHash, NoHash>>
    /\ UNCHANGED <<randomVars, eligVars, filterVars, popupVars, verifyVars, collectVars, queueVars, appVars, followVars>>

HashNext ==
    \/ HashFirst
    \/ HashSecond
    \/ HashReturn

(***************************************************************************)
(* Eligibility in the extension popup (popup.js)                           *)
(***************************************************************************)
\* The follow-account inputs of the popup: none, or one account typed with
\* an @ and in upper case
FollowInputs == {<<>>, << <<"@", "X">> >>}

\* state.followers as the popup has it: nothing collected, an empty
\* collection, or one follower
PopupFollowers ==
    {<<>>,
     <<[account |-> <<"x">>, users |-> <<>>]>>,
     <<[account |-> <<"x">>, users |-> <<[username |-> <<"A">>, followerCount |-> Some(3)]>>]>>}

\* getFollowAccounts(): value.replace(/^@/, '').toLowerCase(), empty values
\* dropped
getFollowAccounts(inputs) ==
    LET normalized == [k \in DOMAIN inputs |-> ToLowerCase(StripAt(inputs[k]))]
        nonEmpty(v) == Len(v) > 0
    IN  SelectSeq(normalized, nonEmpty)

\* if (reqX.checked && state.xs.length > 0) { eligibleSet = eligibleSet ? ... : set }
PopupIntersect(eligibleSet, checked, users) ==
    IF checked /\ Len(users) > 0
    THEN Intersect(eligibleSet, NewSet(LowerUsernames(users)))
    ELSE eligibleSet

\* for (const account of accounts) { if (followers.length > 0) { ... } }
RECURSIVE PopupIntersectFollowers(_, _, _)
PopupIntersectFollowers(eligibleSet, accounts, followers) ==
    IF accounts = <<>> THEN eligibleSet
    ELSE PopupIntersectFollowers(
            PopupIntersect(eligibleSet, TRUE, FollowersOf(followers, Head(accounts))),
            Tail(accounts), followers)

\* forEach(u => { if (!userMap.has(key)) userMap.set(key, u) })
RECURSIVE MapSetMissing(_, _)
MapSetMissing(map, users) ==
    IF users = <<>> THEN map
    ELSE MapSetMissing(map @@ (ToLowerCase(Head(users).username) :> Head(users)),
                       Tail(users))

\* eligibleSet of the popup after the retweet and like blocks (Absent is null)
PopupEligibleSet(st) ==
    PopupIntersect(PopupIntersect(Absent, st.reqRetweet, st.retweeters),
                   st.reqLike, st.likers)

\* calculateEligible() of the popup (retweet and like)
calculateEligiblePopup(st) ==
    LET eligibleSet == PopupEligibleSet(st)
        userMap     == MapSetAll(EmptyMap, st.likers \o st.retweeters)
    IN  IF ~IsPresent(eligibleSet) THEN <<>>
        ELSE BuildUsers(Val(eligibleSet), userMap)

\* calculateEligible() of the popup (retweet, like and follow)
calculateEligiblePopupFollow(st) ==
    LET afterLike   == PopupEligibleSet(st)
        eligibleSet == IF st.reqFollow
                       THEN PopupIntersectFollowers(afterLike,
                                getFollowAccounts(st.followInputs), st.followers)
                       ELSE afterLike
        userMap     == MapSetMissing(MapSetAll(EmptyMap, st.likers \o st.retweeters),
                                     FlatFollowers(st.followers))
    IN  IF ~IsPresent(eligibleSet) THEN <<>>
        ELSE BuildUsers(Val(eligibleSet), userMap)

NoPopupCall ==
    [called |-> FALSE, reqRetweet |-> FALSE, reqLike |-> FALSE, reqFollow |-> FALSE,
     followInputs |-> <<>>, retweeters |-> <<>>, likers |-> <<>>, followers |-> <<>>]

PopupInit ==
    /\ popup = NoPopupCall
    /\ popupResult = <<>>

\* calculateEligible() with the checkboxes and the collected lists of the popup
PopupCalculateEligible ==
    /\ ~popup.called
    /\ \E r, l \in ListsOf(EligUsers, MaxList), rr, rl \in BOOLEAN :
        LET st == [NoPopupCall EXCEPT !.called = TRUE, !.reqRetweet = rr,
                                      !.reqLike = rl, !.retweeters = r, !.likers = l]
        IN  /\ popup' = st
            /\ popupResult' = calculateEligiblePopup(st)
    /\ UNCHANGED <<randomVars, eligVars, filterVars, hashVars, verifyVars, collectVars, queueVars, appVars, followVars>>

\* calculateEligible() of the popup that also has the follow requirement
PopupCalculateEligibleFollow ==
    /\ ~popup.called
    /\ \E r, l \in ListsOf(EligUsers, MaxList), rr, rl, rf \in BOOLEAN,
          inputs \in FollowInputs, fs \in PopupFollowers :
        LET st == [called |-> TRUE, reqRetweet |-> rr, reqLike |-> rl,
                   reqFollow |-> rf, followInputs |-> inputs,
                   retweeters |-> r, likers |-> l, followers |-> fs]
        IN  /\ popup' = st
            /\ popupResult' = calculateEligiblePopupFollow(st)
    /\ UNCHANGED <<randomVars, eligVars, filterVars, hashVars, verifyVars, collectVars, queueVars, appVars, followVars>>

\* The popup has shown the result
PopupReturn ==
    /\ popup.called
    /\ popup' = NoPopupCall
    /\ popupResult' = <<>>
    /\ UNCHANGED <<randomVars, eligVars, filterVars, hashVars, verifyVars, collectVars, queueVars, appVars, followVars>>

PopupNext ==
    \/ PopupCalculateEligible
    \/ PopupCalculateEligibleFollow
    \/ PopupReturn

(***************************************************************************)
(* Winner verification in the extension popup (popup.js): pickWinners and  *)
(* verifyAndPickWinners                                                    *)
(***************************************************************************)
\* The number of shuffled candidates handed to the verification
MaxCandidates == 12

\* The largest value typed into the winner-count field
MaxCount == 1

\* const maxToCheck = Math.min(candidates.length, count + 10)
Backups == 10

\* The shuffled list: candidate k is the k-th entry of unbiasedShuffle(filtered)
ShuffledCandidates(n) == [k \in 1..n |-> k]

\* let count = parseInt(winnerCountInput.value) || 1;
\* count = Math.max(1, Math.min(count, 100, filtered.length));
ValidatedCount(input, n) ==
    LET parsed == IF input = 0 THEN 1 ELSE input
    IN  Max(1, Min(Min(parsed, 100), n))

\* Mutant: the loop runs on while candidates are left to check
LoopContinuesToEnd(k, limit, found, count) == k < limit

\* for (...; i < maxToCheck && winners.length < count; ...)
LoopContinues(k, limit, found, count) == k < limit /\ found < count

\* The answers checkUserFollows can resolve to:
\*   "follows"      { followsAll: true, results }
\*   "notFollowing" { followsAll: false, results }
\*   "error"        { followsAll: false, error }, also when no response came
FollowAnswers == {"follows", "notFollowing", "error"}

CheckFollows(username) == [type |-> "CHECK_FOLLOWS", username |-> username]

NoWarning == [kind |-> "none"]

\* showWarning(message) at the end of verifyAndPickWinners
ShortfallWarning(found, count, nFailed, nErrors) ==
    [kind |-> "warning", found |-> found, count |-> count,
     failed |-> nFailed, errors |-> nErrors]

VerifyInit ==
    /\ candidates = <<>>
    /\ wanted = 0
    /\ maxToCheck = 0
    /\ idx = 0
    /\ winners = <<>>
    /\ failed = <<>>
    /\ errors = <<>>
    /\ checkResult = "none"
    /\ verifyPc = "idle"
    /\ warning = NoWarning
    /\ stateWinners = <<>>
    /\ isCollecting = FALSE
    /\ sent = <<>>
    /\ stopSent = FALSE

\* pickWinners(), up to the call of verifyAndPickWinners (or to its return when
\* nothing is left after the filters or no follow is required)
PickWinners ==
    /\ verifyPc = "idle"
    /\ \E n \in 0..MaxCandidates, input \in (0 - 1)..MaxCount, requireFollows \in BOOLEAN :
        LET count == ValidatedCount(input, n)
        IN  /\ sent' = <<>>
            /\ stopSent' = FALSE
            /\ winners' = <<>> /\ failed' = <<>> /\ errors' = <<>> /\ idx' = 0
            /\ checkResult' = "none"
            /\ IF n = 0
               THEN /\ warning' = [kind |-> "error"]
                    /\ verifyPc' = "done"
                    /\ candidates' = <<>> /\ wanted' = 0 /\ maxToCheck' = 0
                    /\ UNCHANGED stateWinners
               ELSE IF requireFollows
               THEN /\ warning' = NoWarning
                    /\ candidates' = ShuffledCandidates(n)
                    /\ wanted' = count
                    /\ maxToCheck' = Min(n, count + Backups)
                    /\ verifyPc' = "loop"
                    /\ UNCHANGED stateWinners
               ELSE /\ warning' = NoWarning
                    /\ candidates' = ShuffledCandidates(n)
                    /\ wanted' = count
                    /\ maxToCheck' = 0
                    /\ stateWinners' = Slice(ShuffledCandidates(n), 0, count)
                    /\ verifyPc' = "done"
    /\ UNCHANGED isCollecting
    /\ UNCHANGED <<randomVars, eligVars, filterVars, hashVars, popupVars, collectVars, queueVars, appVars, followVars>>

\* The loop head and, inside the loop, the call of checkUserFollows: the
\* CHECK_FOLLOWS message for candidates[i] goes out
IssueCheck ==
    /\ verifyPc = "loop"
    /\ LoopContinues(idx, maxToCheck, Len(winners), wanted)
    /\ sent' = Append(sent, CheckFollows(candidates[idx + 1]))
    /\ verifyPc' = "await"
    /\ UNCHANGED <<candidates, wanted, maxToCheck, idx, winners, failed, errors,
                   checkResult, warning, stateWinners, isCollecting, stopSent>>
    /\ UNCHANGED <<randomVars, eligVars, filterVars, hashVars, popupVars, collectVars, queueVars, appVars, followVars>>

\* if (i < maxToCheck - 1) await sleep(500), else straight to i++
AfterCheck == IF idx < maxToCheck - 1 THEN "sleep" ELSE "next"

\* i++ without a sleep in between
Advance(pcNext) ==
    IF pcNext = "next"
    THEN idx' = idx + 1 /\ verifyPc' = "loop"
    ELSE idx' = idx /\ verifyPc' = "sleep"

\* const result = await checkUserFollows(...): the answer has arrived
CheckReturns ==
    /\ verifyPc = "await"
    /\ \E answer \in FollowAnswers : checkResult' = answer
    /\ verifyPc' = "got"
    /\ UNCHANGED <<candidates, wanted, maxToCheck, idx, winners, failed, errors,
                   warning, stateWinners, isCollecting, sent, stopSent>>
    /\ UNCHANGED <<randomVars, eligVars, filterVars, hashVars, popupVars, collectVars, queueVars, appVars, followVars>>

\* if (result.followsAll) winners.push(candidate)
\* else if (result.results) failed.push(...) else if (result.error) errors.push(...)
Record ==
    /\ verifyPc = "got"
    /\ winners' = IF checkResult = "follows"
                  THEN Append(winners, candidates[idx + 1]) ELSE winners
    /\ failed' = IF checkResult = "notFollowing"
                 THEN Append(failed, candidates[idx + 1]) ELSE failed
    /\ errors' = IF checkResult = "error"
                 THEN Append(errors, candidates[idx + 1]) ELSE errors
    /\ checkResult' = "none"
    /\ Advance(AfterCheck)
    /\ UNCHANGED <<candidates, wanted, maxToCheck, warning, stateWinners,
                   isCollecting, sent, stopSent>>
    /\ UNCHANGED <<randomVars, eligVars, filterVars, hashVars, popupVars, collectVars, queueVars, appVars, followVars>>

\* checkUserFollows rejects (no active tab, no content script in the tab)
CheckThrows ==
    /\ verifyPc = "await"
    /\ verifyPc' = "catch"
    /\ UNCHANGED <<candidates, wanted, maxToCheck, idx, winners, failed, errors,
                   checkResult, warning, stateWinners, isCollecting, sent, stopSent>>
    /\ UNCHANGED <<randomVars, eligVars, filterVars, hashVars, popupVars, collectVars, queueVars, appVars, followVars>>

\* catch (e) { errors.push({ username: candidate.username, error: e.message }); }
Catch ==
    /\ verifyPc = "catch"
    /\ errors' = Append(errors, candidates[idx + 1])
    /\ Advance(AfterCheck)
    /\ UNCHANGED <<candidates, wanted, maxToCheck, winners, failed, warning,
                   checkResult, stateWinners, isCollecting, sent, stopSent>>
    /\ UNCHANGED <<randomVars, eligVars, filterVars, hashVars, popupVars, collectVars, queueVars, appVars, followVars>>

\* sleep(500) is over: i++
WakeUp ==
    /\ verifyPc = "sleep"
    /\ idx' = idx + 1
    /\ verifyPc' = "loop"
    /\ UNCHANGED <<candidates, wanted, maxToCheck, winners, failed, errors,
                   checkResult, warning, stateWinners, isCollecting, sent, stopSent>>
    /\ UNCHANGED <<randomVars, eligVars, filterVars, hashVars, popupVars, collectVars, queueVars, appVars, followVars>>

\* The loop is left: the report, return winners, and in pickWinners
\* state.winners = verifiedWinners
VerifyReturn ==
    /\ verifyPc = "loop"
    /\ ~LoopContinues(idx, maxToCheck, Len(winners), wanted)
    /\ warning' = IF Len(winners) < wanted
                  THEN ShortfallWarning(Len(winners), wanted, Len(failed), Len(errors))
                  ELSE warning
    /\ stateWinners' = winners
    /\ verifyPc' = "done"
    /\ UNCHANGED <<candidates, wanted, maxToCheck, idx, winners, failed, errors,
                   checkResult, isCollecting, sent, stopSent>>
    /\ UNCHANGED <<randomVars, eligVars, filterVars, hashVars, popupVars, collectVars, queueVars, appVars, followVars>>

\* stopCollection(): the user clicks Stop
StopCollection ==
    /\ verifyPc \notin {"idle", "done"}
    /\ ~stopSent
    /\ isCollecting' = FALSE
    /\ stopSent' = TRUE
    /\ UNCHANGED <<candidates, wanted, maxToCheck, idx, winners, failed, errors,
                   checkResult, verifyPc, warning, stateWinners, sent>>
    /\ UNCHANGED <<randomVars, eligVars, filterVars, hashVars, popupVars, collectVars, queueVars, appVars, followVars>>

\* clearCollectedData(): the user clears the draw; the next one can start
ClearCollectedData ==
    /\ verifyPc = "done"
    /\ verifyPc' = "idle"
    /\ candidates' = <<>> /\ wanted' = 0 /\ maxToCheck' = 0 /\ idx' = 0
    /\ winners' = <<>> /\ failed' = <<>> /\ errors' = <<>> /\ checkResult' = "none"
    /\ stateWinners' = <<>> /\ sent' = <<>> /\ stopSent' = FALSE
    /\ UNCHANGED <<warning, isCollecting>>
    /\ UNCHANGED <<randomVars, eligVars, filterVars, hashVars, popupVars, collectVars, queueVars, appVars, followVars>>

VerifyNext ==
    \/ PickWinners
    \/ IssueCheck
    \/ CheckReturns
    \/ Record
    \/ CheckThrows
    \/ Catch
    \/ WakeUp
    \/ VerifyReturn
    \/ StopCollection
    \/ ClearCollectedData

(***************************************************************************)
(* Collection in the content script (content.js): navigateAndCollect,      *)
(* autoScroll, finishCollection, initialize and the message handlers       *)
(***************************************************************************)
\* The number of navigateAndCollect / initialize runs that can be under way
MaxLoops == 2

\* autoScroll(maxScrolls): the model's value of maxScrolls
MaxScrolls == 1

\* The most user objects one intercepted response holds
MaxBatch == 2

LoopIds == 1..MaxLoops

CollectTypes == {"retweeters", "likers"}

\* targetUrl of a collect type, and the page a tweet is first shown on
PageOf(type) == IF type = "retweeters" THEN "retweets" ELSE "likes"

\* const collectedData = { ..., isCollecting: false, collectionMutex: false }
InitialCollectedData ==
    [retweeters |-> EmptyMap, likers |-> EmptyMap,
     isCollecting |-> FALSE, collectionMutex |-> FALSE, collectType |-> "none"]

\* The user objects a response can hold: one handle, observed in two
\* spellings and with two states of its metadata
ObservedUsers ==
    {[username |-> <<"a">>, followers |-> 1],
     [username |-> <<"A">>, followers |-> 2]}

\* The data handed to handleApiResponse: null, or the user objects in it
Responses ==
    {Absent} \cup {Some(l) : l \in UNION {[1..n -> ObservedUsers] : n \in 0..MaxBatch}}

\* extractUsers(data, [], 0, 50): a user whose lower-cased name was seen
\* earlier in the same response is left out
RECURSIVE ExtractUsers(_)
ExtractUsers(data) ==
    IF data = <<>> THEN <<>>
    ELSE LET init == ExtractUsers(SubSeq(data, 1, Len(data) - 1))
             last == data[Len(data)]
         IN  IF SetHas(LowerUsernames(init), ToLowerCase(last.username))
             THEN init ELSE Append(init, last)

\* getTargetMap(): the name of the map of the collect type, null otherwise
GetTargetMap(data) ==
    IF data.collectType \in {"retweeters", "likers"}
    THEN Some(data.collectType) ELSE Absent

\* users.forEach(user => { if (user.username && !targetMap.has(lower))
\*                           { targetMap.set(lower, user); added++; } })
RECURSIVE AddUnseen(_, _)
AddUnseen(map, users) ==
    IF users = <<>> THEN map
    ELSE LET user == Head(users)
             key  == ToLowerCase(user.username)
         IN  AddUnseen(IF Len(user.username) > 0 /\ key \notin DOMAIN map
                       THEN (key :> user) @@ map ELSE map,
                       Tail(users))

\* Array.from(map.values())
RECURSIVE MapValues(_)
MapValues(map) ==
    IF DOMAIN map = {} THEN <<>>
    ELSE LET k == CHOOSE j \in DOMAIN map : TRUE
         IN  <<map[k]>> \o MapValues([j \in DOMAIN map \ {k} |-> map[j]])

\* dataToSave of saveToStorage
DataToSave(data) ==
    [retweeters |-> MapValues(data.retweeters), likers |-> MapValues(data.likers)]

\* initialize(): saved.retweeters.forEach(u => collectedData.retweeters.set(
\* u.username.toLowerCase(), u)), and the same for the likers
RestoreSaved(data, stored) ==
    IF IsPresent(stored)
    THEN [data EXCEPT !.retweeters = MapSetAll(@, Val(stored).retweeters),
                      !.likers = MapSetAll(@, Val(stored).likers)]
    ELSE data

NoObservation == [users |-> <<>>, parity |-> 0]

\* A run that is not under way
NoLoop == [pc |-> "unused", type |-> "none", scrollCount |-> 0]

FreeLoops == {k \in LoopIds : loops[k].pc = "unused"}

\* The runs inside autoScroll or in the sleep right before it
Scrolling == {k \in LoopIds : loops[k].pc \in {"delay", "scroll", "asleep"}}

AlreadyInProgress == [success |-> FALSE, error |-> "Collection already in progress"]

CollectInit ==
    /\ collectedData = InitialCollectedData
    /\ page = "tweet"
    /\ pendingCollection = Absent
    /\ scriptPc = "ready"
    /\ loops = [k \in LoopIds |-> NoLoop]
    /\ reply = [success |-> TRUE]
    /\ storedData = Absent
    /\ saveTimeout = FALSE
    /\ observation = NoObservation

\* if (collectedData.collectionMutex) return { success: false, error: ... }
MutexTaken(data) == data.collectionMutex

\* START_COLLECT: navigateAndCollect up to its first await
StartCollect ==
    /\ FreeLoops # {}
    /\ \E type \in CollectTypes :
        IF MutexTaken(collectedData)
        THEN /\ reply' = AlreadyInProgress
             /\ UNCHANGED <<collectedData, pendingCollection, loops>>
        ELSE LET k == CHOOSE f \in FreeLoops : \A g \in FreeLoops : f <= g
             IN  /\ collectedData' = [collectedData EXCEPT !.isCollecting = TRUE,
                                                           !.collectionMutex = TRUE,
                                                           !.collectType = type]
                 /\ pendingCollection' = Some(type)
                 /\ loops' = [loops EXCEPT ![k] = [pc |-> "storing", type |-> type,
                                                  scrollCount |-> 0]]
                 /\ UNCHANGED reply
    /\ UNCHANGED <<page, scriptPc>>
    /\ UNCHANGED <<storedData, saveTimeout, observation>>
    /\ UNCHANGED <<randomVars, eligVars, filterVars, hashVars, popupVars, verifyVars, queueVars, appVars, followVars>>

\* navigateAndCollect after chrome.storage.local.set: window.location.href =
\* targetUrl unloads the page and with it every run of this content script;
\* the script starts anew on the target page
Navigate ==
    /\ \E k \in LoopIds :
        /\ loops[k].pc = "storing"
        /\ PageOf(loops[k].type) # page
        /\ page' = PageOf(loops[k].type)
    /\ reply' = [success |-> TRUE, navigating |-> TRUE]
    /\ collectedData' = InitialCollectedData
    /\ loops' = [k \in LoopIds |-> NoLoop]
    /\ scriptPc' = "read"
    /\ UNCHANGED pendingCollection
    /\ saveTimeout' = FALSE
    /\ UNCHANGED <<storedData, observation>>
    /\ UNCHANGED <<randomVars, eligVars, filterVars, hashVars, popupVars, verifyVars, queueVars, appVars, followVars>>

\* navigateAndCollect when the tab is on the right page already: sleep(1500)
StayOnPage ==
    /\ \E k \in LoopIds :
        /\ loops[k].pc = "storing"
        /\ PageOf(loops[k].type) = page
        /\ loops' = [loops EXCEPT ![k].pc = "delay"]
    /\ UNCHANGED <<collectedData, page, pendingCollection, scriptPc, reply>>
    /\ UNCHANGED <<storedData, saveTimeout, observation>>
    /\ UNCHANGED <<randomVars, eligVars, filterVars, hashVars, popupVars, verifyVars, queueVars, appVars, followVars>>

\* initialize(): the pending collection is read; it is dropped when too old
\* and resumed (isCollecting = true) when the tab is on its page; then the
\* saved data is put back into the maps
InitializeRead ==
    /\ scriptPc = "read"
    /\ scriptPc' = "resume"
    /\ \E tooOld \in BOOLEAN :
        IF ~IsPresent(pendingCollection)
        THEN /\ collectedData' = RestoreSaved(collectedData, storedData)
             /\ UNCHANGED pendingCollection
        ELSE IF tooOld
        THEN /\ pendingCollection' = Absent
             /\ collectedData' = RestoreSaved(collectedData, storedData)
        ELSE /\ collectedData' =
                  RestoreSaved(IF PageOf(Val(pendingCollection)) = page
                               THEN [collectedData EXCEPT
                                        !.isCollecting = TRUE,
                                        !.collectType = Val(pendingCollection)]
                               ELSE collectedData,
                               storedData)
             /\ UNCHANGED pendingCollection
    /\ UNCHANGED <<page, loops, reply>>
    /\ UNCHANGED <<storedData, saveTimeout, observation>>
    /\ UNCHANGED <<randomVars, eligVars, filterVars, hashVars, popupVars, verifyVars, queueVars, appVars, followVars>>

\* initialize(): if (collectedData.isCollecting) { await sleep(1500); ... }
InitializeResume ==
    /\ scriptPc = "resume"
    /\ collectedData.isCollecting => FreeLoops # {}
    /\ scriptPc' = "ready"
    /\ loops' = IF collectedData.isCollecting
                THEN LET k == CHOOSE f \in FreeLoops : \A g \in FreeLoops : f <= g
                     IN  [loops EXCEPT ![k] = [pc |-> "delay",
                                               type |-> collectedData.collectType,
                                               scrollCount |-> 0]]
                ELSE loops
    /\ UNCHANGED <<collectedData, page, pendingCollection, reply>>
    /\ UNCHANGED <<storedData, saveTimeout, observation>>
    /\ UNCHANGED <<randomVars, eligVars, filterVars, hashVars, popupVars, verifyVars, queueVars, appVars, followVars>>

\* sleep(1500) is over: autoScroll() is entered
EnterAutoScroll ==
    /\ \E k \in LoopIds :
        /\ loops[k].pc = "delay"
        /\ loops' = [loops EXCEPT ![k].pc = "scroll", ![k].scrollCount = 0]
    /\ UNCHANGED <<collectedData, page, pendingCollection, scriptPc, reply>>
    /\ UNCHANGED <<storedData, saveTimeout, observation>>
    /\ UNCHANGED <<randomVars, eligVars, filterVars, hashVars, popupVars, verifyVars, queueVars, appVars, followVars>>

\* while (scrollCount < maxScrolls && collectedData.isCollecting) { scrollTo; sleep
ScrollHead ==
    /\ \E k \in LoopIds :
        /\ loops[k].pc = "scroll"
        /\ loops' = [loops EXCEPT ![k].pc =
                        IF loops[k].scrollCount < MaxScrolls /\ collectedData.isCollecting
                        THEN "asleep" ELSE "finish"]
    /\ UNCHANGED <<collectedData, page, pendingCollection, scriptPc, reply>>
    /\ UNCHANGED <<storedData, saveTimeout, observation>>
    /\ UNCHANGED <<randomVars, eligVars, filterVars, hashVars, popupVars, verifyVars, queueVars, appVars, followVars>>

\* the loop wakes up: scrollCount++, break when nothing new has come for a while
ScrollWake ==
    /\ \E k \in LoopIds, nothingNew \in BOOLEAN :
        /\ loops[k].pc = "asleep"
        /\ loops' = [loops EXCEPT ![k].scrollCount = @ + 1,
                                  ![k].pc = IF nothingNew THEN "finish" ELSE "scroll"]
    /\ UNCHANGED <<collectedData, page, pendingCollection, scriptPc, reply>>
    /\ UNCHANGED <<storedData, saveTimeout, observation>>
    /\ UNCHANGED <<randomVars, eligVars, filterVars, hashVars, popupVars, verifyVars, queueVars, appVars, followVars>>

\* finishCollection() up to its await
FinishCollection ==
    /\ \E k \in LoopIds :
        /\ loops[k].pc = "finish"
        /\ loops' = [loops EXCEPT ![k].pc = "removing"]
    /\ collectedData' = [collectedData EXCEPT !.isCollecting = FALSE,
                                              !.collectionMutex = FALSE]
    /\ UNCHANGED <<page, pendingCollection, scriptPc, reply>>
    /\ UNCHANGED <<storedData, saveTimeout, observation>>
    /\ UNCHANGED <<randomVars, eligVars, filterVars, hashVars, popupVars, verifyVars, queueVars, appVars, followVars>>

\* finishCollection() after chrome.storage.local.remove: COLLECTION_COMPLETE
\* is sent and the run returns
CollectionComplete ==
    /\ \E k \in LoopIds :
        /\ loops[k].pc = "removing"
        /\ loops' = [loops EXCEPT ![k] = NoLoop]
        /\ reply' = [type |-> "COLLECTION_COMPLETE", collectType |-> loops[k].type]
    /\ pendingCollection' = Absent
    /\ UNCHANGED <<collectedData, page, scriptPc>>
    /\ saveTimeout' = TRUE
    /\ UNCHANGED <<storedData, observation>>
    /\ UNCHANGED <<randomVars, eligVars, filterVars, hashVars, popupVars, verifyVars, queueVars, appVars, followVars>>

\* STOP_COLLECT
StopCollect ==
    /\ collectedData' = [collectedData EXCEPT !.isCollecting = FALSE,
                                              !.collectionMutex = FALSE]
    /\ reply' = [success |-> TRUE]
    /\ UNCHANGED <<page, pendingCollection, scriptPc, loops>>
    /\ UNCHANGED <<storedData, saveTimeout, observation>>
    /\ UNCHANGED <<randomVars, eligVars, filterVars, hashVars, popupVars, verifyVars, queueVars, appVars, followVars>>

\* CLEAR_DATA
ClearData ==
    /\ collectedData' = [collectedData EXCEPT !.retweeters = EmptyMap,
                                              !.likers = EmptyMap,
                                              !.isCollecting = FALSE,
                                              !.collectionMutex = FALSE]
    /\ pendingCollection' = Absent
    /\ storedData' = Absent
    /\ UNCHANGED <<saveTimeout, observation>>
    /\ reply' = [success |-> TRUE]
    /\ UNCHANGED <<page, scriptPc, loops>>
    /\ UNCHANGED <<randomVars, eligVars, filterVars, hashVars, popupVars, verifyVars, queueVars, appVars, followVars>>

\* handleApiResponse(url, data), once the script is initialized
HandleApiResponse ==
    /\ scriptPc = "ready"
    /\ \E data \in Responses :
        LET users     == ExtractUsers(Val(data))
            targetMap == GetTargetMap(collectedData)
        IN  IF \/ ~collectedData.isCollecting
               \/ ~IsPresent(data)
               \/ Len(users) = 0
               \/ ~IsPresent(targetMap)
            THEN UNCHANGED <<collectedData, saveTimeout, observation>>
            ELSE LET before == collectedData[Val(targetMap)]
                     after  == AddUnseen(before, users)
                 IN  /\ collectedData' =
                          [collectedData EXCEPT ![Val(targetMap)] = after]
                     /\ saveTimeout' =
                          (saveTimeout \/ Cardinality(DOMAIN after)
                                            > Cardinality(DOMAIN before))
                     /\ observation' = [users |-> users,
                                        parity |-> 1 - observation.parity]
    /\ UNCHANGED <<page, pendingCollection, scriptPc, loops, reply, storedData>>
    /\ UNCHANGED <<randomVars, eligVars, filterVars, hashVars, popupVars, verifyVars, queueVars, appVars, followVars>>

\* saveToStorage's timer fires: chrome.storage.local.set({ collectedData:
\* dataToSave }), which can fail
SaveTimerFires ==
    /\ saveTimeout
    /\ saveTimeout' = FALSE
    /\ \E fails \in BOOLEAN :
        IF fails
        THEN /\ reply' = [type |-> "STORAGE_ERROR"]
             /\ UNCHANGED storedData
        ELSE /\ storedData' = Some(DataToSave(collectedData))
             /\ UNCHANGED reply
    /\ UNCHANGED <<collectedData, page, pendingCollection, scriptPc, loops,
                   observation>>
    /\ UNCHANGED <<randomVars, eligVars, filterVars, hashVars, popupVars, verifyVars, queueVars, appVars, followVars>>

CollectNext ==
    \/ HandleApiResponse
    \/ SaveTimerFires
    \/ StartCollect
    \/ Navigate
    \/ StayOnPage
    \/ InitializeRead
    \/ InitializeResume
    \/ EnterAutoScroll
    \/ ScrollHead
    \/ ScrollWake
    \/ FinishCollection
    \/ CollectionComplete
    \/ StopCollect
    \/ ClearData

(***************************************************************************)
(* Collection queue of the background script (background.js):              *)
(* processNextInQueue and the START_QUEUE, COLLECTION_COMPLETE and         *)
(* CLEAR_QUEUE handlers; the popup's listener for QUEUE_COMPLETE           *)
(***************************************************************************)
\* The longest queue a START_QUEUE message carries
MaxQueue == 2

QueueTypes == {"retweeters", "likers", "followers"}

\* The items of a message: the valid ones and one of an unknown type
QueueItems == QueueTypes \cup {"bogus"}

\* message.queue: an array of items, or something that is no array
QueueMessages == UNION {[1..n -> QueueItems] : n \in 0..MaxQueue}

\* message.queue.filter(item => item && item.type && item.tweetId &&
\*     ['retweeters', 'likers', 'followers'].includes(item.type))
ValidItems(queue) == SelectSeq(queue, LAMBDA item : item \in QueueTypes)

IdleWorker == [pc |-> "idle", next |-> "none"]

InitialCollectionStatus == [t \in QueueTypes |-> "idle"]

\* The answers the content script can give to START_COLLECT:
\*   "started"  the collection runs (on this page or after the navigation)
\*   "error"    { success: false, error }, nothing was started
\*   "throws"   chrome.tabs.sendMessage rejects, no content script in the tab
StartAnswers == {"started", "error", "throws"}

QueueInit ==
    /\ collectionQueue = <<>>
    /\ worker = IdleWorker
    /\ collection = "none"
    /\ timerSet = FALSE
    /\ collectionStatus = InitialCollectionStatus
    /\ queueReply = [success |-> FALSE, queueLength |-> 0]
    /\ queueComplete = FALSE
    /\ popupIsCollecting = FALSE
    /\ acceptedItems = 0
    /\ acceptedQueue = <<>>
    /\ sentStarts = <<>>
    /\ cleared = FALSE

\* processNextInQueue() up to its first await, run on the queue q: for an
\* empty queue QUEUE_COMPLETE is broadcast (the popup's listener then sets
\* state.isCollecting = false); otherwise the head of the queue is taken and
\* chrome.tabs.query is awaited
ProcessNextInQueue(q, completeBefore, collectingBefore) ==
    IF Len(q) = 0
    THEN /\ queueComplete' = TRUE
         /\ popupIsCollecting' = FALSE
         /\ collectionQueue' = q
         /\ worker' = IdleWorker
    ELSE /\ queueComplete' = completeBefore
         /\ popupIsCollecting' = collectingBefore
         /\ collectionQueue' = Tail(q)
         /\ worker' = [pc |-> "query", next |-> Head(q)]

\* startCollection() of the popup sends START_QUEUE; the background script
\* filters the queue, calls processNextInQueue and answers
StartQueue ==
    /\ worker.pc = "idle" /\ ~timerSet /\ collection = "none"
    /\ \E queue \in QueueMessages, isArray \in BOOLEAN :
        IF ~isArray
        THEN /\ queueReply' = [success |-> FALSE, queueLength |-> 0]
             /\ popupIsCollecting' = TRUE
             /\ queueComplete' = FALSE
             /\ acceptedItems' = 0
             /\ acceptedQueue' = <<>>
             /\ UNCHANGED <<collectionQueue, worker>>
        ELSE LET valid == ValidItems(queue)
             IN  /\ acceptedItems' = Len(valid)
                 /\ acceptedQueue' = valid
                 /\ ProcessNextInQueue(valid, FALSE, TRUE)
                 /\ queueReply' = [success |-> TRUE,
                                   queueLength |-> Max(Len(valid) - 1, 0)]
    /\ sentStarts' = <<>>
    /\ cleared' = FALSE
    /\ UNCHANGED <<collection, timerSet, collectionStatus>>
    /\ UNCHANGED <<randomVars, eligVars, filterVars, hashVars, popupVars, verifyVars,
                   collectVars, appVars, followVars>>

\* processNextInQueue() after chrome.tabs.query: if (tabs.length === 0) return
TabsQuery ==
    /\ worker.pc = "query"
    /\ \E tabOpen \in BOOLEAN :
        /\ worker' = IF tabOpen THEN [worker EXCEPT !.pc = "send"] ELSE IdleWorker
        /\ sentStarts' = IF tabOpen THEN Append(sentStarts, worker.next) ELSE sentStarts
    /\ UNCHANGED <<collectionQueue, collection, timerSet, collectionStatus,
                   queueReply, queueComplete, popupIsCollecting, acceptedItems,
                   acceptedQueue, cleared>>
    /\ UNCHANGED <<randomVars, eligVars, filterVars, hashVars, popupVars, verifyVars,
                   collectVars, appVars, followVars>>

\* processNextInQueue() after chrome.tabs.sendMessage(START_COLLECT): an answer
\* ends the call, a rejection is caught and processNextInQueue() is called again
SendStartCollect ==
    /\ worker.pc = "send"
    /\ \E answer \in StartAnswers :
        CASE answer = "started" ->
                /\ collection' = worker.next
                /\ worker' = IdleWorker
                /\ UNCHANGED <<collectionQueue, queueComplete, popupIsCollecting>>
          [] answer = "error" ->
                /\ worker' = IdleWorker
                /\ UNCHANGED <<collection, collectionQueue, queueComplete,
                               popupIsCollecting>>
          [] answer = "throws" ->
                /\ ProcessNextInQueue(collectionQueue, queueComplete, popupIsCollecting)
                /\ UNCHANGED collection
    /\ UNCHANGED <<timerSet, collectionStatus, queueReply, acceptedItems,
                   acceptedQueue, sentStarts, cleared>>
    /\ UNCHANGED <<randomVars, eligVars, filterVars, hashVars, popupVars, verifyVars,
                   collectVars, appVars, followVars>>

\* The running collection ends and the content script sends
\* COLLECTION_COMPLETE: the handler sets the status and the timer
CollectionCompleted ==
    /\ collection # "none"
    /\ collectionStatus' = [collectionStatus EXCEPT ![collection] = "complete"]
    /\ timerSet' = TRUE
    /\ collection' = "none"
    /\ UNCHANGED <<collectionQueue, worker, queueReply, queueComplete,
                   popupIsCollecting, acceptedItems, acceptedQueue, sentStarts,
                   cleared>>
    /\ UNCHANGED <<randomVars, eligVars, filterVars, hashVars, popupVars, verifyVars,
                   collectVars, appVars, followVars>>

\* setTimeout(() => processNextInQueue(), 1000) fires
TimerFires ==
    /\ timerSet
    /\ worker.pc = "idle"
    /\ timerSet' = FALSE
    /\ ProcessNextInQueue(collectionQueue, queueComplete, popupIsCollecting)
    /\ UNCHANGED <<collection, collectionStatus, queueReply, acceptedItems,
                   acceptedQueue, sentStarts, cleared>>
    /\ UNCHANGED <<randomVars, eligVars, filterVars, hashVars, popupVars, verifyVars,
                   collectVars, appVars, followVars>>

\* stopCollection() of the popup: CLEAR_QUEUE
ClearQueue ==
    /\ popupIsCollecting
    /\ collectionQueue' = <<>>
    /\ popupIsCollecting' = FALSE
    /\ cleared' = TRUE
    /\ UNCHANGED <<worker, collection, timerSet, collectionStatus, queueReply,
                   queueComplete, acceptedItems, acceptedQueue, sentStarts>>
    /\ UNCHANGED <<randomVars, eligVars, filterVars, hashVars, popupVars, verifyVars,
                   collectVars, appVars, followVars>>

QueueNext ==
    \/ StartQueue
    \/ TabsQuery
    \/ SendStartCollect
    \/ CollectionCompleted
    \/ TimerFires
    \/ ClearQueue

(***************************************************************************)
(* Web application (context/AppContext.tsx): appReducer, fetchParticipants *)
(* and performDraw.  The fields of AppState that no claim reads            *)
(* (inputMode, giveawayConfig, disqualified, tweetUrl, verificationStats)  *)
(* are left out; of a Draw the model keeps the four participant lists.     *)
(***************************************************************************)
\* The longest participant list of the web application
MaxDrawList == 2

\* The largest winner count and alternate count that are set
MaxDrawCount == 2

\* DEFAULT_FILTER_CONFIG
DefaultFilterConfig ==
    [minFollowers |-> 5, minFollowing |-> 5, minAccountAgeDays |-> 30,
     requireAvatar |-> TRUE, requireBio |-> FALSE, minTweets |-> 10,
     blacklist |-> <<>>, onlyVerified |-> FALSE, excludeDefaultProfile |-> TRUE]

\* const initialState: AppState
initialState ==
    [step |-> "setup", participants |-> <<>>, filterConfig |-> DefaultFilterConfig,
     winnerCount |-> 1, alternateCount |-> 0, draw |-> Absent, isLoading |-> FALSE,
     progressMessage |-> "", error |-> Absent]

\* { ...state.filterConfig, ...action.payload }
Spread(base, over) ==
    [f \in DOMAIN base \cup DOMAIN over |-> IF f \in DOMAIN over THEN over[f] ELSE base[f]]

\* function appReducer(state, action)
appReducer(state, action) ==
    CASE action.type = "SET_STEP" -> [state EXCEPT !.step = action.payload, !.error = Absent]
      [] action.type = "SET_PARTICIPANTS" -> [state EXCEPT !.participants = action.payload]
      [] action.type = "SET_FILTER_CONFIG" ->
            [state EXCEPT !.filterConfig = Spread(state.filterConfig, action.payload)]
      [] action.type = "SET_WINNER_COUNT" -> [state EXCEPT !.winnerCount = Max(1, action.payload)]
      [] action.type = "SET_ALTERNATE_COUNT" ->
            [state EXCEPT !.alternateCount = Max(0, action.payload)]
      [] action.type = "SET_DRAW" -> [state EXCEPT !.draw = Some(action.payload)]
      [] action.type = "SET_LOADING" -> [state EXCEPT !.isLoading = action.payload]
      [] action.type = "SET_PROGRESS" -> [state EXCEPT !.progressMessage = action.payload]
      [] action.type = "SET_ERROR" -> [state EXCEPT !.error = action.payload]
      [] action.type = "RESET" -> initialState
      [] OTHER -> state

\* dispatch(a1); dispatch(a2); ...: the reducer is applied to each in turn
RECURSIVE Dispatch(_, _)
Dispatch(state, actions) ==
    IF actions = <<>> THEN state
    ELSE Dispatch(appReducer(state, Head(actions)), Tail(actions))

Act(type, payload) == [type |-> type, payload |-> payload]

\* error instanceof Error ? error.message : fallback
ErrorMessage(error, fallback) == IF error.isError THEN error.message ELSE fallback

\* What verifyGiveaway can reject with: an Error with a message, or a value
\* that is no Error
FetchFailures ==
    {[isError |-> TRUE, message |-> "Rate limit exceeded"],
     [isError |-> FALSE, message |-> ""]}

\* fetchParticipants: the dispatches before the try block
FetchBegin ==
    <<Act("SET_LOADING", TRUE), Act("SET_ERROR", Absent), Act("SET_STEP", "fetching")>>

\* fetchParticipants: the dispatches after verifyGiveaway has resolved
FetchTry(eligible) ==
    <<Act("SET_PARTICIPANTS", eligible), Act("SET_DISQUALIFIED", <<>>),
      Act("SET_VERIFICATION_STATS", <<>>), Act("SET_TWEET_URL", ""),
      Act("SET_STEP", "filter")>>

\* fetchParticipants: catch (error) { ... }
FetchCatch(error) ==
    <<Act("SET_ERROR", Some(ErrorMessage(error, "Failed to fetch participants"))),
      Act("SET_STEP", "requirements")>>

\* fetchParticipants: finally { ... }
FetchFinally == <<Act("SET_LOADING", FALSE), Act("SET_PROGRESS", "")>>

\* performDraw: the dispatches before the try block
DrawBegin == <<Act("SET_LOADING", TRUE), Act("SET_ERROR", Absent)>>

\* Mutant: the catch block goes back to the filter step
DrawCatchToFilter(error) ==
    <<Act("SET_ERROR", Some(ErrorMessage(error, "An error occurred during the draw"))),
      Act("SET_STEP", "filter")>>

\* performDraw: catch (error) { ... }
DrawCatch(error) ==
    <<Act("SET_ERROR", Some(ErrorMessage(error, "An error occurred during the draw")))>>

\* performDraw: finally { ... }
DrawFinally == <<Act("SET_LOADING", FALSE)>>

\* throw new Error('No eligible participants after applying filters')
NoEligibleError ==
    [isError |-> TRUE, message |-> "No eligible participants after applying filters"]

\* What hashParticipants can reject with
HashFailures == {[isError |-> TRUE, message |-> "digest failed"]}

\* Mutant: the winners are selected among all the participants
DrawPoolUnfiltered(all, filtered) == all

\* selectWinnersWithAlternates(filtered.passed, ...): the list drawn from
DrawPool(all, filtered) == filtered.passed

\* const draw: Draw = { ..., allParticipants: state.participants,
\*   eligibleParticipants: filterResult.passed, winners, ...,
\*   alternates: alternates.length > 0 ? alternates : undefined }
NewDraw(locals) ==
    [allParticipants      |-> locals.participants,
     eligibleParticipants |-> locals.passed,
     winners              |-> locals.winners,
     alternates           |-> IF Len(locals.alternates) > 0
                              THEN Some(locals.alternates) ELSE Absent]

\* ---- inputs of the web application model ----
\* A profile that passes the thresholds and one with too few followers
DrawProfiles ==
    {BaseParticipant(<<"a">>),
     [BaseParticipant(<<"b">>) EXCEPT !.followerCount = Some(4)]}

\* Every entry of a list is an object of its own: ref tells the entries apart
WithRef(p, k) == [f \in DOMAIN p \cup {"ref"} |-> IF f = "ref" THEN k ELSE p[f]]

DrawLists ==
    {[k \in DOMAIN l |-> WithRef(l[k], k)] : l \in ListsOf(DrawProfiles, MaxDrawList)}

DrawConfigs == {AllOff, ThresholdsOnly}

NavSteps == {"setup", "requirements"}

\* The eligible lists of the popup: calculateEligible returns one user for
\* a handle
PickLists ==
    {l \in ListsOf(DrawProfiles, MaxDrawList) :
        \A j, k \in DOMAIN l : j # k => l[j].username # l[k].username}

\* verifyAndPickWinners(candidates, count, requiredAccounts) as a function of
\* what checkUserFollows answers for the candidates, from candidate k + 1 on
RECURSIVE VerifiedFrom(_, _, _, _, _)
VerifiedFrom(shuffled, count, answers, k, found) ==
    IF ~LoopContinues(k, Min(Len(shuffled), count + Backups), Len(found), count)
    THEN found
    ELSE VerifiedFrom(shuffled, count, answers, k + 1,
                      IF answers[k + 1] = "follows"
                      THEN Append(found, shuffled[k + 1]) ELSE found)

NoPick == [filtered |-> <<>>, winners |-> <<>>]

\* progress.message of the stages of verifyGiveaway
ProgressMessages == {"Fetching retweeters", "Fetching likers", "Verifying follows"}

NoFetch == [pc |-> "idle", failure |-> Absent]

\* pc: "idle" or "hashing"; runs: the parity of the number of calls; outcome
\* of the last call that awaited the hash: "success" or "caught"
NoDraw == [pc |-> "idle", runs |-> 0, outcome |-> "none", locals |-> <<>>]

AppInit ==
    /\ appState = initialState
    /\ fetchRun = NoFetch
    /\ drawRun = NoDraw
    /\ popupPick = NoPick

\* setStep('filter') of the draw and result screens
BackToFilter ==
    /\ appState' = Dispatch(appState, <<Act("SET_STEP", "filter")>>)
    /\ UNCHANGED <<fetchRun, drawRun, popupPick>>
    /\ UNCHANGED <<randomVars, eligVars, filterVars, hashVars, popupVars, verifyVars, collectVars, queueVars, followVars>>

\* setStep('setup'), setStep('requirements') of the screens before the fetch
SetStep ==
    /\ \E step \in NavSteps : appState' = Dispatch(appState, <<Act("SET_STEP", step)>>)
    /\ UNCHANGED <<fetchRun, drawRun, popupPick>>
    /\ UNCHANGED <<randomVars, eligVars, filterVars, hashVars, popupVars, verifyVars, collectVars, queueVars, followVars>>

\* setParticipants(participants)
SetParticipants ==
    /\ \E list \in DrawLists :
        appState' = Dispatch(appState, <<Act("SET_PARTICIPANTS", list)>>)
    /\ UNCHANGED <<fetchRun, drawRun, popupPick>>
    /\ UNCHANGED <<randomVars, eligVars, filterVars, hashVars, popupVars, verifyVars, collectVars, queueVars, followVars>>

\* setFilterConfig(config)
SetFilterConfig ==
    /\ \E cfg \in DrawConfigs :
        appState' = Dispatch(appState, <<Act("SET_FILTER_CONFIG", cfg)>>)
    /\ UNCHANGED <<fetchRun, drawRun, popupPick>>
    /\ UNCHANGED <<randomVars, eligVars, filterVars, hashVars, popupVars, verifyVars, collectVars, queueVars, followVars>>

\* setWinnerCount(count)
SetWinnerCount ==
    /\ \E count \in 0..MaxDrawCount :
        appState' = Dispatch(appState, <<Act("SET_WINNER_COUNT", count)>>)
    /\ UNCHANGED <<fetchRun, drawRun, popupPick>>
    /\ UNCHANGED <<randomVars, eligVars, filterVars, hashVars, popupVars, verifyVars, collectVars, queueVars, followVars>>

\* setAlternateCount(count)
SetAlternateCount ==
    /\ \E count \in (0 - 1)..(MaxDrawCount - 1) :
        appState' = Dispatch(appState, <<Act("SET_ALTERNATE_COUNT", count)>>)
    /\ UNCHANGED <<fetchRun, drawRun, popupPick>>
    /\ UNCHANGED <<randomVars, eligVars, filterVars, hashVars, popupVars, verifyVars, collectVars, queueVars, followVars>>

\* reset()
ResetApp ==
    /\ appState' = Dispatch(appState, <<Act("RESET", <<>>)>>)
    /\ UNCHANGED <<fetchRun, drawRun, popupPick>>
    /\ UNCHANGED <<randomVars, eligVars, filterVars, hashVars, popupVars, verifyVars, collectVars, queueVars, followVars>>

\* fetchParticipants(), up to await service.verifyGiveaway(...)
FetchStart ==
    /\ fetchRun.pc = "idle"
    /\ appState' = Dispatch(appState, FetchBegin)
    /\ fetchRun' = [pc |-> "awaiting", failure |-> Absent]
    /\ UNCHANGED <<drawRun, popupPick>>
    /\ UNCHANGED <<randomVars, eligVars, filterVars, hashVars, popupVars, verifyVars, collectVars, queueVars, followVars>>

\* onProgress(progress)
FetchProgress ==
    /\ fetchRun.pc = "awaiting"
    /\ \E message \in ProgressMessages :
        appState' = Dispatch(appState, <<Act("SET_PROGRESS", message)>>)
    /\ UNCHANGED <<fetchRun, drawRun, popupPick>>
    /\ UNCHANGED <<randomVars, eligVars, filterVars, hashVars, popupVars, verifyVars, collectVars, queueVars, followVars>>

\* verifyGiveaway resolves: the rest of the try block, then the finally block
FetchResolves ==
    /\ fetchRun.pc = "awaiting"
    /\ \E eligible \in DrawLists :
        appState' = Dispatch(appState, FetchTry(eligible) \o FetchFinally)
    /\ fetchRun' = NoFetch
    /\ UNCHANGED <<drawRun, popupPick>>
    /\ UNCHANGED <<randomVars, eligVars, filterVars, hashVars, popupVars, verifyVars, collectVars, queueVars, followVars>>

\* verifyGiveaway rejects: the catch block, then the finally block
FetchRejects ==
    /\ fetchRun.pc = "awaiting"
    /\ \E error \in FetchFailures :
        /\ appState' = Dispatch(appState, FetchCatch(error) \o FetchFinally)
        /\ fetchRun' = [pc |-> "idle",
                        failure |-> Some(ErrorMessage(error, "Failed to fetch participants"))]
    /\ UNCHANGED <<drawRun, popupPick>>
    /\ UNCHANGED <<randomVars, eligVars, filterVars, hashVars, popupVars, verifyVars, collectVars, queueVars, followVars>>

\* performDraw(), up to await hashParticipants(state.participants); when the
\* filters leave nobody the Error is thrown and the call ends in this step
PerformDrawStart ==
    /\ drawRun.pc = "idle"
    /\ LET begun        == Dispatch(appState, DrawBegin)
           filtered     == filterParticipants(appState.participants, appState.filterConfig)
           entrants     == DrawPool(appState.participants, filtered)
       IN  IF Len(filtered.passed) = 0
           THEN /\ appState' = Dispatch(begun, DrawCatch(NoEligibleError) \o DrawFinally)
                /\ drawRun' = [pc |-> "idle", runs |-> 1 - drawRun.runs,
                               outcome |-> "none", locals |-> <<>>]
           ELSE \E js \in IndexSeqs(Len(entrants)) :
                LET selection == SelectWinnersWithAlternatesReturn(
                                     ShuffleWith(entrants, js), appState.winnerCount,
                                     appState.alternateCount, "seed")
                IN  /\ appState' = begun
                    /\ drawRun' =
                          [pc |-> "hashing", runs |-> 1 - drawRun.runs,
                           outcome |-> "none",
                           locals |-> [participants |-> appState.participants,
                                       passed       |-> filtered.passed,
                                       filtered     |-> filtered.filtered,
                                       winners      |-> selection.winners,
                                       alternates   |-> selection.alternates]]
    /\ UNCHANGED <<fetchRun, popupPick>>
    /\ UNCHANGED <<randomVars, eligVars, filterVars, hashVars, popupVars, verifyVars, collectVars, queueVars, followVars>>

\* hashParticipants settles: the draw is dispatched, or the catch block runs;
\* then the finally block
PerformDrawHashed ==
    /\ drawRun.pc = "hashing"
    /\ \/ /\ appState' =
               Dispatch(appState,
                        <<Act("SET_DRAW", NewDraw(drawRun.locals)),
                          Act("SET_STEP", "results")>> \o DrawFinally)
          /\ drawRun' = [drawRun EXCEPT !.pc = "idle", !.outcome = "success",
                                        !.locals = <<>>]
       \/ \E error \in HashFailures :
          /\ appState' = Dispatch(appState, DrawCatch(error) \o DrawFinally)
          /\ drawRun' = [drawRun EXCEPT !.pc = "idle", !.outcome = "caught",
                                        !.locals = <<>>]
    /\ UNCHANGED <<fetchRun, popupPick>>
    /\ UNCHANGED <<randomVars, eligVars, filterVars, hashVars, popupVars, verifyVars, collectVars, queueVars, followVars>>

\* pickWinners() of the popup, with verifyAndPickWinners run to its end:
\* eligible is what calculateEligible returns, js the indices that
\* unbiasedShuffle draws
PopupPickWinners ==
    /\ \E eligible \in PickLists, filters \in DrawConfigs,
          input \in 0..MaxDrawCount, requireFollows \in BOOLEAN :
        LET filtered == applyFilters(eligible, filters)
            count    == ValidatedCount(input, Len(filtered))
        IN  IF Len(filtered) = 0
            THEN UNCHANGED popupPick
            ELSE \E js \in IndexSeqs(Len(filtered)) :
                 LET shuffled == ShuffleWith(filtered, js)
                 IN  IF requireFollows
                     THEN \E answers \in [DOMAIN shuffled -> FollowAnswers] :
                          popupPick' =
                              [filtered |-> filtered,
                               winners  |-> VerifiedFrom(shuffled, count, answers, 0, <<>>)]
                     ELSE popupPick' = [filtered |-> filtered,
                                        winners  |-> Slice(shuffled, 0, count)]
    /\ UNCHANGED <<appState, fetchRun, drawRun>>
    /\ UNCHANGED <<randomVars, eligVars, filterVars, hashVars, popupVars, verifyVars, collectVars, queueVars, followVars>>

\* The screens up to the participant list
FetchNext ==
    \/ SetStep
    \/ ResetApp
    \/ FetchStart
    \/ FetchProgress
    \/ FetchResolves
    \/ FetchRejects

\* The web application has not been used
WebUntouched == appState = initialState /\ fetchRun = NoFetch /\ drawRun = NoDraw

\* The popup has not picked
PopupUntouched == popupPick = NoPick

\* The draws: the screens of the web application from the participant list to
\* the results, and pickWinners of the popup.  The web application and the
\* popup are two programs that share no state, so a behaviour follows one of
\* them
DrawNext ==
    \/ PopupUntouched /\ BackToFilter
    \/ PopupUntouched /\ SetParticipants
    \/ PopupUntouched /\ SetFilterConfig
    \/ PopupUntouched /\ SetWinnerCount
    \/ PopupUntouched /\ SetAlternateCount
    \/ PopupUntouched /\ PerformDrawStart
    \/ PopupUntouched /\ PerformDrawHashed
    \/ WebUntouched /\ PopupPickWinners

(***************************************************************************)
(* Follow checks of the web API client (api/twitter.ts): request,          *)
(* checkUserFollowsTarget and checkUsersFollowAccount                      *)
(***************************************************************************)
\* The most user ids handed to checkUsersFollowAccount
MaxUsers == 2

FollowUserIds == 1..(MaxUsers + 1)

\* userIds: the ids of the candidate users, each once
FollowUserLists ==
    {l \in ListsOf(FollowUserIds, MaxUsers) :
        \A j, k \in DOMAIN l : j # k => l[j] # l[k]}

\* What the API does with GET /users/:id/following: it answers with a list
\* that holds the target or does not, it answers 429 (or the client's own
\* rate limit check refuses the request), or it answers another error
RequestOutcomes == {"following", "notFollowing", "rateLimited", "apiError"}

Returned(v) == [threw |-> FALSE, value |-> v]

Thrown(error) == [threw |-> TRUE, error |-> error]

\* this.request(endpoint) followed by response.data?.some(user => user.id ===
\* targetUserId) || false
RequestFollowing(outcome) ==
    CASE outcome = "rateLimited" -> Thrown("RateLimitError")
      [] outcome = "apiError" -> Thrown("TwitterApiRequestError")
      [] OTHER -> Returned(outcome = "following")

\* checkUserFollowsTarget(userId, targetUserId): try { ... } catch { return false; }
checkUserFollowsTarget(outcome) ==
    LET answer == RequestFollowing(outcome)
    IN  IF answer.threw THEN Returned(FALSE) ELSE answer

NoFollowRun ==
    [pc |-> "idle", userIds |-> <<>>, checked |-> 0, results |-> EmptyMap,
     outcomes |-> <<>>, error |-> "none"]

FollowInit == followRun = NoFollowRun

\* checkUsersFollowAccount(userIds, targetUserId), up to the first await
CallCheckUsersFollowAccount ==
    /\ followRun.pc = "idle"
    /\ \E userIds \in FollowUserLists :
        followRun' = [NoFollowRun EXCEPT
                         !.userIds = userIds,
                         !.pc = IF Len(userIds) = 0 THEN "returned" ELSE "request"]
    /\ UNCHANGED <<randomVars, eligVars, filterVars, hashVars, popupVars, verifyVars, collectVars, queueVars, appVars>>

\* await this.checkUserFollowsTarget(userId, targetUserId) settles: the result
\* is recorded, or the catch block runs; then checked++ and the sleep begins
FollowCheckSettles ==
    /\ followRun.pc = "request"
    /\ \E outcome \in RequestOutcomes :
        LET userId      == followRun.userIds[followRun.checked + 1]
            isFollowing == checkUserFollowsTarget(outcome)
            seen        == [followRun EXCEPT !.outcomes = Append(@, outcome)]
        IN  IF isFollowing.threw /\ isFollowing.error = "RateLimitError"
            THEN followRun' = [seen EXCEPT !.pc = "thrown", !.error = isFollowing.error]
            ELSE followRun' =
                   [seen EXCEPT
                      !.results = (userId :> (IF isFollowing.threw THEN FALSE
                                              ELSE isFollowing.value)) @@ @,
                      !.checked = @ + 1,
                      !.pc = "sleep"]
    /\ UNCHANGED <<randomVars, eligVars, filterVars, hashVars, popupVars, verifyVars, collectVars, queueVars, appVars>>

\* await sleep(1000) is over: the next user, or return results
FollowSleepOver ==
    /\ followRun.pc = "sleep"
    /\ followRun' = [followRun EXCEPT
                        !.pc = IF followRun.checked < Len(followRun.userIds)
                               THEN "request" ELSE "returned"]
    /\ UNCHANGED <<randomVars, eligVars, filterVars, hashVars, popupVars, verifyVars, collectVars, queueVars, appVars>>

\* verifyGiveaway has the results, or the error
FollowReturn ==
    /\ followRun.pc \in {"returned", "thrown"}
    /\ followRun' = NoFollowRun
    /\ UNCHANGED <<randomVars, eligVars, filterVars, hashVars, popupVars, verifyVars, collectVars, queueVars, appVars>>

FollowNext ==
    \/ CallCheckUsersFollowAccount
    \/ FollowCheckSettles
    \/ FollowSleepOver
    \/ FollowReturn

Init ==
    /\ RandomInit /\ EligInit /\ FilterInit /\ HashInit /\ PopupInit
    /\ VerifyInit /\ CollectInit /\ QueueInit /\ AppInit /\ FollowInit

SpecRandom == Init /\ [][RandomNext]_vars

SpecElig == Init /\ [][EligNext]_vars

SpecFilter == Init /\ [][FilterNext]_vars

SpecHash == Init /\ [][HashNext]_vars

SpecPopup == Init /\ [][PopupNext]_vars

SpecVerify == Init /\ [][VerifyNext]_vars

SpecCollect == Init /\ [][CollectNext]_vars

SpecQueue == Init /\ [][QueueNext]_vars

SpecFetch == Init /\ [][FetchNext]_vars

SpecDraw == Init /\ [][DrawNext]_vars

SpecFollow == Init /\ [][FollowNext]_vars

\* Every awaited promise of processNextInQueue settles, the timer fires, and a
\* collection that was started ends with COLLECTION_COMPLETE
SpecQueueFair ==
    /\ Init /\ [][QueueNext]_vars
    /\ WF_vars(TabsQuery)
    /\ WF_vars(SendStartCollect)
    /\ WF_vars(CollectionCompleted)
    /\ WF_vars(TimerFires)

(***************************************************************************)
(* Claims about the winner verification (checked under SpecVerify)         *)
(***************************************************************************)
\* The CHECK_FOLLOWS requests sent so far, and the candidates they name
Requests == sent

Checked == [k \in 1..Len(Requests) |-> Requests[k].username]

Verifying == verifyPc \notin {"idle", "done"}

Verified == verifyPc = "done" /\ maxToCheck > 0

PositionIn(list, e) == CHOOSE k \in DOMAIN list : list[k] = e

C27_ErrorsCountedAndReported ==
    Verified =>
        /\ Len(winners) = wanted \/ Len(Checked) = maxToCheck
        /\ stateWinners = winners
        /\ Range(winners) \cup Range(failed) \cup Range(errors) = Range(Checked)
        /\ Len(winners) + Len(failed) + Len(errors) = Len(Checked)
        /\ errors # <<>> =>
              (warning.kind = "warning" /\ warning.errors = Len(errors))

\* C28: once the user has requested a stop during verifyAndPickWinners, no
\* further CHECK_FOLLOWS request is sent.
C28_StopEndsVerification ==
    [][(Verifying /\ stopSent) =>
          Requests' = Requests]_vars

(***************************************************************************)
(* Claims about the collection in the content script (checked under        *)
(* SpecCollect)                                                            *)
(***************************************************************************)
\* C29: at most one collection is running in the content script at any time,
\* and no run is started while another one is running, whatever the order of
\* START_COLLECT, STOP_COLLECT, CLEAR_DATA and the wake-ups of the loop.
C29_OneCollectionAtATime ==
    /\ [](Cardinality(Scrolling) <= 1)
    /\ [][Scrolling # {} =>
            \A k \in LoopIds : loops[k].pc = "unused" => loops'[k].pc = "unused"]_vars

\* The users of the response that this step of handleApiResponse went through
ObservedNow == observation'.parity # observation.parity

\* C36 (as stated): within one category of the content script's collected
\* data, when a user with an already stored normalized handle is observed
\* again, the stored record is replaced by the most recently observed one:
\* after handleApiResponse went through a response, the record stored under
\* the lower-cased name of each of its users is that user object.
C36_MostRecentObservationStored ==
    [][ObservedNow =>
         \A k \in DOMAIN observation'.users :
            MapGet(collectedData'[Val(GetTargetMap(collectedData'))],
                   ToLowerCase(observation'.users[k].username))
              = Some(observation'.users[k])]_vars

(***************************************************************************)
(* Claims about the collection queue (checked under SpecQueue and          *)
(* SpecQueueFair)                                                          *)
(***************************************************************************)
\* C30: once START_QUEUE has been accepted with a non-empty queue,
\* QUEUE_COMPLETE is eventually broadcast, also when no Twitter tab is open or
\* the content script answers START_COLLECT with an error.
C30_QueueCompleteEventually ==
    (queueReply.success /\ acceptedItems > 0 /\ ~queueComplete) ~> queueComplete

\* The item a processNextInQueue call has taken and not yet sent
InHand == IF worker.pc = "query" THEN <<worker.next>> ELSE <<>>

\* C31: as long as no CLEAR_QUEUE intervenes, the items accepted by the last
\* START_QUEUE are, in queue order, the ones sent as START_COLLECT (each
\* once), the one in hand and the ones still queued: no item leaves the queue
\* without being sent.
C31_EveryItemSentOnceInOrder ==
    ~cleared => sentStarts \o InHand \o collectionQueue = acceptedQueue

\* C32: once CLEAR_QUEUE has been acknowledged, no START_COLLECT is sent
\* until the next START_QUEUE.
C32_NoStartAfterClear ==
    [][(cleared /\ cleared') => sentStarts' = sentStarts]_vars

(***************************************************************************)
(* Claims about the web application (checked under SpecFetch and SpecDraw) *)
(***************************************************************************)
\* The step in which verifyGiveaway rejects and fetchParticipants ends
FetchFailed ==
    fetchRun.pc = "awaiting" /\ fetchRun'.pc = "idle" /\ IsPresent(fetchRun'.failure)

\* C33 (as stated): when fetching participants fails, the state after the last
\* action dispatched by fetchParticipants has step = 'requirements',
\* isLoading = false and state.error equal to the failure message.
C33_FetchFailureShowsError ==
    [][FetchFailed =>
         /\ appState'.step = "requirements"
         /\ ~appState'.isLoading
         /\ appState'.error = fetchRun'.failure]_vars

\* A step of performDraw, and the step in which a call of it ends
DrawStep == drawRun' # drawRun

DrawEnds == DrawStep /\ drawRun'.pc = "idle"

\* The filters leave nobody of state.participants
NobodyPasses ==
    Len(filterParticipants(appState.participants, appState.filterConfig).passed) = 0

\* C34: every run of performDraw ends with isLoading = false, and an
\* exception thrown in it ends in state.error (it is caught); state.draw and
\* state.step change only in the step that ends a successful draw; when the
\* filters eliminate every participant the run ends at once with the previous
\* draw and step unchanged and a non-null state.error.
C34_PerformDrawEndsCleanly ==
    [][DrawStep =>
         /\ DrawEnds => ~appState'.isLoading
         /\ (DrawEnds /\ drawRun'.outcome # "success") => IsPresent(appState'.error)
         /\ (appState'.draw # appState.draw \/ appState'.step # appState.step)
               => (DrawEnds /\ drawRun'.outcome = "success")
         /\ (drawRun.pc = "idle" /\ NobodyPasses) =>
               /\ DrawEnds
               /\ appState'.draw = appState.draw
               /\ appState'.step = appState.step
               /\ IsPresent(appState'.error)]_vars

\* A draw was made, and a later run found that the filters leave nobody: the
\* results are still shown, with the error
C34_Witness ==
    /\ drawRun.pc = "idle"
    /\ IsPresent(appState.draw)
    /\ appState.step = "results"
    /\ appState.error = Some(NoEligibleError.message)
    /\ ~appState.isLoading

\* sub is list with some of its entries left out
IsSubList(sub, list) ==
    \E f \in [DOMAIN sub -> DOMAIN list] :
        /\ \A j, k \in DOMAIN sub : j < k => f[j] < f[k]
        /\ \A k \in DOMAIN sub : list[f[k]] = sub[k]

\* The winners and the alternates of a draw
Drawn(draw) ==
    Range(draw.winners)
        \cup (IF IsPresent(draw.alternates) THEN Range(Val(draw.alternates)) ELSE {})

\* C38: in every Draw created by performDraw, each winner and each alternate
\* is an element of draw.eligibleParticipants, which is a sub-list of
\* draw.allParticipants; in the call that creates it, no entry that
\* filterParticipants gave a rejection reason is among the winners or the
\* alternates.  In the popup every picked winner is in the filtered list.
C38_WinnersComeFromFilteredList ==
    /\ drawRun.pc = "hashing" =>
          LET l == drawRun.locals
          IN  /\ Range(l.winners) \cup Range(l.alternates) \subseteq Range(l.passed)
              /\ \A k \in DOMAIN l.filtered :
                    l.filtered[k].participant
                        \notin Range(l.winners) \cup Range(l.alternates)
    /\ IsPresent(appState.draw) =>
          LET draw == Val(appState.draw)
          IN  /\ Drawn(draw) \subseteq Range(draw.eligibleParticipants)
              /\ IsSubList(draw.eligibleParticipants, draw.allParticipants)
    /\ Range(popupPick.winners) \subseteq Range(popupPick.filtered)

\* A draw in which the filters rejected a participant and a winner was drawn
C38_Witness ==
    /\ IsPresent(appState.draw)
    /\ Len(Val(appState.draw).eligibleParticipants)
          < Len(Val(appState.draw).allParticipants)
    /\ Len(Val(appState.draw).winners) > 0

(***************************************************************************)
(* Claims about the follow checks of the web API client (checked under     *)
(* SpecFollow)                                                             *)
(***************************************************************************)
\* C35 (as stated): when a per-user follow check hits a rate limit,
\* checkUsersFollowAccount re-throws the RateLimitError to its caller, and
\* the rate-limited check is never recorded as 'does not follow': once the
\* request for the k-th user was rate limited, the call has thrown a
\* RateLimitError and results holds no entry for that user.
C35_RateLimitIsRethrown ==
    \A k \in DOMAIN followRun.outcomes :
        followRun.outcomes[k] = "rateLimited" =>
            /\ followRun.pc = "thrown"
            /\ followRun.error = "RateLimitError"
            /\ followRun.userIds[k] \notin DOMAIN followRun.results

(***************************************************************************)
(* Claims about the secure random engine (checked under SpecRandom)        *)
(***************************************************************************)
Distinct(s) == \A a, b \in DOMAIN s : a # b => s[a] # s[b]

SameMultiset(s, t) == \A e \in Range(s) \cup Range(t) : Count(s, e) = Count(t, e)

SWADone == pc = "done" /\ op = "selectWinnersWithAlternates"

\* C1: for a pool with pairwise-distinct handles and any integer counts
\* (zero, negative, larger than the pool), the winners and alternates that
\* selectWinnersWithAlternates returns share no participant, every returned
\* participant is a member of the pool, and |winners| + |alternates| <= |pool|.
C1_WinnersAlternatesDisjoint ==
    (SWADone /\ Distinct(pool)) =>
        /\ Range(out.winners) \cap Range(out.alternates) = {}
        /\ Range(out.winners) \cup Range(out.alternates) \subseteq Range(pool)
        /\ Len(out.winners) + Len(out.alternates) <= Len(pool)

\* A negative winnerCount and an alternateCount above the pool size, on a
\* pool of three distinct participants, with both lists non-empty
C1_Witness ==
    /\ SWADone
    /\ Distinct(pool)
    /\ Len(pool) = 3
    /\ args.winnerCount < 0
    /\ args.alternateCount > Len(pool)
    /\ out.winners # <<>>
    /\ out.alternates # <<>>

\* C2: for every input list (empty and single-element lists included) and
\* every sequence of random draws, the shuffle returns a list of the same
\* length with exactly the same multiset of elements; it also holds of the
\* working copy at every step of the loop.
C2_ShufflePermutation ==
    /\ (pc = "done" /\ op = "secureShuffle") =>
            (Len(out) = Len(pool) /\ SameMultiset(out, pool))
    /\ (pc \in {"shuffle", "draw"} /\ op # "secureRandomInt") =>
            (Len(result) = Len(pool) /\ SameMultiset(result, pool))

\* A three-element list with a repeated element came back in another order
C2_Witness ==
    /\ pc = "done"
    /\ op = "secureShuffle"
    /\ Len(pool) = 3
    /\ ~Distinct(pool)
    /\ out # pool

\* C3: for every max >= 1 and every sequence of draws, a value r returned by
\* secureRandomInt(max) satisfies 0 <= r < max.
C3_RandomIntInRange ==
    (pc = "done" /\ op = "secureRandomInt" /\ rmax >= 1) =>
        (out \in Int /\ 0 <= out /\ out < rmax)

\* The largest result, max - 1, was returned for a max that does not divide
\* the word range
C3_Witness ==
    /\ pc = "done"
    /\ op = "secureRandomInt"
    /\ rmax = 3
    /\ out = 2

\* The draws secureRandomInt accepts for max, and how many of them give r
Accepted(im, max) == {v \in Uint32 : ~Rejected(im, max, v)}
Hits(im, max, r) == Cardinality({v \in Accepted(im, max) : Reduce(v, max) = r})

\* C4: rejection sampling removes modulo bias exactly: for 1 <= max < 2^32,
\* among the draws secureRandomInt accepts, the same number of draws maps to
\* each result 0..max-1, in the web utility, the background script and the
\* popup (whose max = 1 shortcut returns 0 without drawing).
C4_NoModuloBias ==
    /\ (pc = "draw" /\ rmax < TwoPow32) =>
            \A r1, r2 \in 0..(rmax - 1) : Hits(impl, rmax, r1) = Hits(impl, rmax, r2)
    /\ (pc = "done" /\ op = "secureRandomInt" /\ rmax = 1) => out = 0

\* The do-while loop has thrown a draw away, for a max that does not divide
\* the word range
C4_Witness ==
    /\ pc = "draw"
    /\ rmax = 3
    /\ Rejected(impl, rmax, value)
    /\ impl = "background"

Clamp(count, n) == Min(Max(count, 0), n)

SWDone == pc = "done" /\ op = "selectWinners"

\* C13: requested counts are clamped to the pool and never negative: for a
\* pool of n participants and every integer count, selectWinners returns
\* min(max(count, 0), n) winners, and selectWinnersWithAlternates returns
\* min(max(winnerCount, 0), n) winners and
\* min(max(alternateCount, 0), n - |winners|) alternates.
C13_CountsClamped ==
    /\ SWDone => Len(out.winners) = Clamp(args.count, Len(pool))
    /\ SWADone =>
        /\ Len(out.winners) = Clamp(args.winnerCount, Len(pool))
        /\ Len(out.alternates) =
               Clamp(args.alternateCount, Len(pool) - Len(out.winners))

\* C14: the web utility's secureRandomInt(max) raises an error for every
\* max <= 0 and returns no number.
C14_NonPositiveMaxThrows ==
    (op = "secureRandomInt" /\ impl = "web" /\ rmax <= 0) =>
        (pc = "threw" /\ out = Undef)

\* secureRandomInt of the web utility was called with a negative max and threw
C14_Witness ==
    /\ op = "secureRandomInt"
    /\ impl = "web"
    /\ rmax < 0
    /\ pc = "threw"

\* C15: secureShuffle, selectWinners and selectWinnersWithAlternates never
\* change the caller's input list: from the call to the return no step
\* changes it.
C15_InputListUnchanged ==
    [][(pc # "idle" /\ pc' # "idle") => pool' = pool]_vars

\* A call on three distinct participants has finished, its working copy is in
\* another order than the caller's list, and the caller's list is still the
\* one that was passed in
C15_Witness ==
    /\ pc = "done"
    /\ op \in {"secureShuffle", "selectWinners", "selectWinnersWithAlternates"}
    /\ pool = <<"p1", "p2", "p3">>
    /\ result = <<"p3", "p1", "p2">>

\* C22: secureRandomInt of the background script and of the popup raises an
\* error for every max <= 0 and returns no number.
C22_ExtensionNonPositiveMaxThrows ==
    (op = "secureRandomInt" /\ impl \in {"background", "popup"} /\ rmax <= 0) =>
        (pc = "threw" /\ out = Undef)

\* The orderings of the list L
Orderings(L) ==
    LET n == Len(L)
        perms == {q \in [1..n -> 1..n] : \A a, b \in 1..n : a # b => q[a] # q[b]}
    IN  {[k \in 1..n |-> L[q[k]]] : q \in perms}

ShuffleDone == pc = "done" /\ op = "secureShuffle"

\* C23: a finished shuffle of n distinct elements returns the ordering that
\* its drawn indices determine, and the loop maps the index sequences one to
\* one onto the orderings of the list: every ordering comes from exactly one
\* index sequence.
C23_IndexSequencesToOrderings ==
    (ShuffleDone /\ Distinct(pool)) =>
        /\ drawn \in IndexSeqs(Len(pool))
        /\ out = ShuffleWith(pool, drawn)
        /\ \A o \in Orderings(pool) :
              Cardinality({js \in IndexSeqs(Len(pool)) : ShuffleWith(pool, js) = o}) = 1

\* A shuffle of three distinct elements has finished with the indices 1, 0
\* and returned the rotation they determine
C23_Witness ==
    /\ ShuffleDone
    /\ pool = <<"p1", "p2", "p3">>
    /\ drawn = <<1, 0>>
    /\ out = <<"p3", "p1", "p2">>

\* C24: in the web utility a draw is thrown away only if it is at or above
\* floor(2^32 / max) * max; for max = 1 no draw is thrown away.
C24_RedrawOnlyAboveLargestMultiple ==
    (op = "secureRandomInt" /\ impl = "web" /\ pc = "draw" /\ value # 0) =>
        value >= (TwoPow32 \div rmax) * rmax

\* The winners (and alternates) that the drawn indices determine; the seed is
\* no argument of these
WinnersOf(L, js, count) ==
    Slice(ShuffleWith(L, js), 0, Min(count, Len(L)))

AlternatesOf(L, js, wc, ac) ==
    LET w == Min(wc, Len(L))
    IN  Slice(ShuffleWith(L, js), w, w + Min(ac, Len(L) - w))

C39_SomeDrawAccepted ==
    (op = "secureRandomInt" /\ pc = "draw" /\ 1 <= rmax /\ rmax <= TwoPow32) =>
        \E v \in Uint32 : ~Rejected(impl, rmax, v)

(***************************************************************************)
(* Claims about eligibility (checked under SpecElig)                       *)
(***************************************************************************)
\* The lower-cased usernames of a list of users, as a set
HandleSet(users) == {ToLowerCase(users[k].username) : k \in DOMAIN users}

\* The arguments of the lib call after the parameter defaults
LibRetweeters     == Default(libCall.retweeters, <<>>)
LibLikers         == Default(libCall.likers, <<>>)
LibRequireRetweet == Default(libCall.requireRetweet, TRUE)
LibRequireLike    == Default(libCall.requireLike, TRUE)

\* The background script has just answered CALCULATE_ELIGIBLE: giveawayData
\* still holds the lists and requirements the answer was computed from
BgAnswered == response.kind = "eligible"

\* What a correct calculateEligible returns for retweet / like requirements
ExpectedHandles(retweeters, likers, requireRetweet, requireLike, got) ==
    /\ (requireRetweet /\ requireLike /\ retweeters # <<>> /\ likers # <<>>) =>
            got = HandleSet(retweeters) \cap HandleSet(likers)
    /\ (requireRetweet /\ ~requireLike) => got = HandleSet(retweeters)
    /\ (~requireRetweet /\ requireLike) => got = HandleSet(likers)

\* C5: when retweet and like are both required and both lists are non-empty,
\* the lower-cased usernames returned by calculateEligible are exactly the
\* intersection of the lower-cased usernames of retweeters and likers; when
\* exactly one is required, they are the handles of that list. (Checked for
\* the lib function, and for the background script when it has no
\* must-follow account.)
C5_EligibleIsIntersection ==
    /\ libCall.called =>
            ExpectedHandles(LibRetweeters, LibLikers, LibRequireRetweet,
                            LibRequireLike, HandleSet(libResult))
    /\ (BgAnswered /\ giveawayData.requirements.mustFollow = <<>>) =>
            ExpectedHandles(giveawayData.retweeters, giveawayData.likers,
                            giveawayData.requirements.mustRetweet,
                            giveawayData.requirements.mustLike,
                            HandleSet(response.eligible))

\* Both required; the two lists name one user in different letter case, and
\* that user is returned
C5_Witness ==
    /\ libCall.called
    /\ LibRequireRetweet /\ LibRequireLike
    /\ \E k \in DOMAIN LibRetweeters, j \in DOMAIN LibLikers :
            /\ LibRetweeters[k].username # LibLikers[j].username
            /\ ToLowerCase(LibRetweeters[k].username) = ToLowerCase(LibLikers[j].username)
    /\ Len(LibRetweeters) = 2
    /\ Len(LibLikers) = 2
    /\ Len(libResult) = 1

\* C6: if a requirement is active (retweet, like, or in the background script
\* a must-follow account) and the list collected for it is empty or absent,
\* calculateEligible returns the empty list, whatever the other lists hold.
C6_EmptyRequiredListFailsClosed ==
    /\ (libCall.called /\ (\/ LibRequireRetweet /\ LibRetweeters = <<>>
                           \/ LibRequireLike /\ LibLikers = <<>>)) =>
            libResult = <<>>
    /\ (BgAnswered /\
        (\/ giveawayData.requirements.mustRetweet /\ giveawayData.retweeters = <<>>
         \/ giveawayData.requirements.mustLike /\ giveawayData.likers = <<>>
         \/ \E k \in DOMAIN giveawayData.requirements.mustFollow :
                FollowersOf(giveawayData.followers,
                            giveawayData.requirements.mustFollow[k]) = <<>>)) =>
            response.eligible = <<>>

\* Retweeters and likers share a user, but the followers of the must-follow
\* account were never collected: nobody is eligible
C6_Witness ==
    /\ BgAnswered
    /\ giveawayData.requirements.mustRetweet
    /\ giveawayData.requirements.mustLike
    /\ giveawayData.requirements.mustFollow = << <<"x">> >>
    /\ giveawayData.followers = <<>>
    /\ HandleSet(giveawayData.retweeters) \cap HandleSet(giveawayData.likers) # {}
    /\ response.eligible = <<>>

\* C7: with no active requirement (retweet not required, like not required,
\* no must-follow account) calculateEligible returns the empty list even when
\* retweeters and likers were collected.
C7_NoRequirementNobodyEligible ==
    /\ (libCall.called /\ ~LibRequireRetweet /\ ~LibRequireLike) => libResult = <<>>
    /\ (BgAnswered /\ ~giveawayData.requirements.mustRetweet
                   /\ ~giveawayData.requirements.mustLike
                   /\ giveawayData.requirements.mustFollow = <<>>) =>
            response.eligible = <<>>

\* Nothing is required, both lists were collected and share a user
C7_Witness ==
    /\ libCall.called
    /\ ~LibRequireRetweet /\ ~LibRequireLike
    /\ HandleSet(LibRetweeters) \cap HandleSet(LibLikers) # {}
    /\ libResult = <<>>

\* The handles both lists hold, the records a result holds for a handle, and
\* the last record of a handle in a list
SharedHandles(r, l) == HandleSet(r) \cap HandleSet(l)
ReturnedFor(res, h) == {res[k] : k \in {j \in DOMAIN res : ToLowerCase(res[j].username) = h}}
LastOf(list, h) ==
    LET at == {k \in DOMAIN list : ToLowerCase(list[k].username) = h}
    IN  list[CHOOSE k \in at : \A j \in at : j <= k]

\* The records of the handle h in the collected followers lists
FollowerRecords(h) ==
    {u \in Range(FlatFollowers(giveawayData.followers)) : ToLowerCase(u.username) = h}

FPDone == filterOp = "filterParticipants"
AFDone == filterOp = "applyFilters"

\* Some record equal to p was filtered with reason r
HasReason(p, r) ==
    \E j \in DOMAIN filterResult.filtered :
        /\ filterResult.filtered[j].participant = p
        /\ r \in Range(filterResult.filtered[j].reasons)

\* applyFilters kept the user u of its input
Kept(u) == u \in Range(filterResult.passed)

\* u alone goes through applyFilters under the filters f
KeptAlone(u, f) == applyFilters(<<u>>, f) = <<u>>

\* C8: for every filter configuration, a participant whose followerCount,
\* followingCount, tweetCount or creation date is absent never receives
\* low_followers, low_following, low_tweets or new_account in
\* filterParticipants, and in applyFilters the matching check never removes
\* it: it is kept exactly if it is kept with that check switched off.
C8_UnknownMetricNeverRejects ==
    /\ FPDone =>
        \A p \in Range(participants) :
            /\ ~IsPresent(p.followerCount)  => ~HasReason(p, "low_followers")
            /\ ~IsPresent(p.followingCount) => ~HasReason(p, "low_following")
            /\ ~IsPresent(p.tweetCount)     => ~HasReason(p, "low_tweets")
            /\ ~IsPresent(p.createdAt)      => ~HasReason(p, "new_account")
    /\ AFDone =>
        \A u \in Range(participants) :
            /\ ~IsPresent(u.followerCount) =>
                    (Kept(u) <=> KeptAlone(u, [config EXCEPT !.minFollowers = 0]))
            /\ ~IsPresent(u.tweetCount) =>
                    (Kept(u) <=> KeptAlone(u, [config EXCEPT !.minTweets = 0]))
            /\ ~IsPresent(u.createdAt) =>
                    (Kept(u) <=> KeptAlone(u, [config EXCEPT !.minAccountAgeDays = 0]))

\* All four thresholds are set; a participant of which only the handle is
\* known passes, next to one that is rejected for its follower count
C8_Witness ==
    /\ FPDone
    /\ config.minFollowers > 0 /\ config.minFollowing > 0
    /\ config.minTweets > 0 /\ config.minAccountAgeDays > 0
    /\ Len(participants) = 2
    /\ participants[1] = UnknownParticipant(<<"a">>)
    /\ participants[1] \in Range(filterResult.passed)
    /\ HasReason(participants[2], "low_followers")

\* C9: filterParticipants gives a participant the reason low_followers if and
\* only if config.minFollowers > 0, followerCount is present and
\* followerCount < minFollowers; a count equal to minFollowers does not get
\* the reason, and minFollowers = 0 disables the check.
C9_LowFollowersExactly ==
    FPDone =>
        \A p \in Range(participants) :
            HasReason(p, "low_followers") <=>
                /\ config.minFollowers > 0
                /\ IsPresent(p.followerCount)
                /\ Val(p.followerCount) < config.minFollowers

\* One participant below the minimum is rejected for it, one exactly on the
\* minimum passes
C9_Witness ==
    /\ FPDone
    /\ config.minFollowers > 0
    /\ Len(participants) = 2
    /\ IsPresent(participants[1].followerCount)
    /\ Val(participants[1].followerCount) < config.minFollowers
    /\ HasReason(participants[1], "low_followers")
    /\ IsPresent(participants[2].followerCount)
    /\ Val(participants[2].followerCount) = config.minFollowers
    /\ participants[2] \in Range(filterResult.passed)

\* The input positions of the handle h, and how many records of h are in
\* passed / in filtered with reason duplicate
PositionsOf(h) == {k \in DOMAIN participants : ToLowerCase(participants[k].username) = h}
FirstOf(h) == participants[CHOOSE k \in PositionsOf(h) : \A j \in PositionsOf(h) : k <= j]
PassedOf(h) ==
    Cardinality({j \in DOMAIN filterResult.passed :
                    ToLowerCase(filterResult.passed[j].username) = h})
DuplicatesOf(h) ==
    Cardinality({j \in DOMAIN filterResult.filtered :
                    /\ ToLowerCase(filterResult.filtered[j].participant.username) = h
                    /\ "duplicate" \in Range(filterResult.filtered[j].reasons)})

\* C10 as stated: of k >= 2 records whose handles are equal ignoring letter
\* case, exactly one is in passed and the other k-1 are in filtered with
\* reason duplicate.
C10_Original ==
    FPDone =>
        \A h \in HandleSet(participants) :
            Cardinality(PositionsOf(h)) >= 2 =>
                /\ PassedOf(h) = 1
                /\ DuplicatesOf(h) = Cardinality(PositionsOf(h)) - 1

\* C10 (amended): of k >= 2 records whose handles are equal ignoring letter
\* case, the k-1 records after the first are in filtered with reason
\* duplicate, and the first is in passed exactly if it passes the filters on
\* its own; so at most one of them is in passed.
C10_DuplicatesAfterFirst ==
    FPDone =>
        \A h \in HandleSet(participants) :
            Cardinality(PositionsOf(h)) >= 2 =>
                /\ DuplicatesOf(h) = Cardinality(PositionsOf(h)) - 1
                /\ PassedOf(h) <= 1
                /\ PassedOf(h) = 1 <=>
                        filterParticipants(<<FirstOf(h)>>, config).filtered = <<>>
                /\ PassedOf(h) = 1 => filterResult.passed[
                        CHOOSE j \in DOMAIN filterResult.passed :
                            ToLowerCase(filterResult.passed[j].username) = h] = FirstOf(h)

\* Two records of one handle in different letter case: the first passes, the
\* second is filtered as duplicate
C10_Witness ==
    /\ FPDone
    /\ Len(participants) = 2
    /\ participants[1].username # participants[2].username
    /\ ToLowerCase(participants[1].username) = ToLowerCase(participants[2].username)
    /\ filterResult.passed = <<participants[1]>>
    /\ HasReason(participants[2], "duplicate")

\* The entries of s at the positions K, in the order of s
RECURSIVE AtPositions(_, _)
AtPositions(s, K) ==
    IF s = <<>> THEN <<>>
    ELSE LET front == AtPositions(SubSeq(s, 1, Len(s) - 1), K)
         IN  IF Len(s) \in K THEN Append(front, s[Len(s)]) ELSE front

\* The rejection reasons of the k-th input record: the predicates it
\* triggers, the handles of the records before it being the seen ones
SeenBefore(k) == {NormalizedUsername(participants[j]) : j \in 1..(k - 1)}
ReasonsAt(k) == ReasonsFor(participants[k], config, SeenBefore(k))
CleanPositions == {k \in DOMAIN participants : ReasonsAt(k) = <<>>}

\* C16: filterParticipants partitions its input: every input record (list
\* entry) is in exactly one of passed and filtered, it is in passed if and
\* only if it has no rejection reason, both lists keep the input order, and
\* stats.total = input length = stats.passed + stats.filtered with
\* stats.passed = |passed| and stats.filtered = |filtered|.
C16_FilterPartitions ==
    FPDone =>
        /\ filterResult.passed = AtPositions(participants, CleanPositions)
        /\ [j \in DOMAIN filterResult.filtered |-> filterResult.filtered[j].participant]
               = AtPositions(participants, DOMAIN participants \ CleanPositions)
        /\ \A j \in DOMAIN filterResult.filtered :
               filterResult.filtered[j].reasons # <<>>
        /\ filterResult.stats.total = Len(participants)
        /\ filterResult.stats.total =
               filterResult.stats.passed + filterResult.stats.filtered
        /\ filterResult.stats.passed = Len(filterResult.passed)
        /\ filterResult.stats.filtered = Len(filterResult.filtered)

\* Of two records the first was rejected for two reasons or more and the
\* second was passed
C16_Witness ==
    /\ FPDone
    /\ Len(participants) = 2
    /\ filterResult.passed = <<participants[2]>>
    /\ Len(filterResult.filtered) = 1
    /\ filterResult.filtered[1].participant = participants[1]
    /\ Len(filterResult.filtered[1].reasons) >= 2
    /\ filterResult.stats.passed = 1
    /\ filterResult.stats.filtered = 1

\* C18: filterParticipants gives a participant the reason blacklisted
\* whenever its handle equals a blacklist entry after lower-casing and
\* stripping one leading @ on both sides, for every combination of letter
\* case and @ prefix on the participant's username and on the blacklist entry.
C18_BlacklistNormalizedBothSides ==
    FPDone =>
        \A k \in DOMAIN participants :
            StripAt(ToLowerCase(participants[k].username)) \in normalizedBlacklist(config)
                => HasReason(participants[k], "blacklisted")

\* The reasons in filtered are, in input order, those of the input records
\* that have a reason
ReasonsInInputOrder ==
    [j \in DOMAIN filterResult.filtered |-> filterResult.filtered[j].reasons]
        = AtPositions([k \in DOMAIN participants |-> ReasonsAt(k)],
                      DOMAIN participants \ CleanPositions)

\* The earlier input records with the handle of the k-th one
EarlierNamesakes(k) ==
    {j \in 1..(k - 1) :
        ToLowerCase(participants[j].username) = ToLowerCase(participants[k].username)}

MarkedDuplicate(k) == "duplicate" \in Range(ReasonsAt(k))

\* C19 as stated: a record is marked duplicate only if a record with the same
\* normalized handle was accepted (placed in passed) earlier in the pass; a
\* record whose only earlier namesake was rejected for another reason is not
\* marked duplicate.
C19_Original ==
    FPDone =>
        /\ ReasonsInInputOrder
        /\ \A k \in DOMAIN participants :
               MarkedDuplicate(k) => \E j \in EarlierNamesakes(k) : j \in CleanPositions

\* C19 (amended): a record is marked duplicate if and only if a record with
\* the same lower-cased handle occurs earlier in the input of the same pass,
\* whether that earlier record was accepted or rejected.
C19_DuplicateIffSeenEarlier ==
    FPDone =>
        /\ ReasonsInInputOrder
        /\ \A k \in DOMAIN participants :
               MarkedDuplicate(k) <=> EarlierNamesakes(k) # {}

\* The first of two records of one handle was rejected for low_followers
\* only; the second, which passes every filter on its own, was rejected as
\* duplicate only
C19_Witness ==
    /\ FPDone
    /\ Len(participants) = 2
    /\ ToLowerCase(participants[1].username) = ToLowerCase(participants[2].username)
    /\ Len(filterResult.filtered) = 2
    /\ filterResult.filtered[1].reasons = <<"low_followers">>
    /\ filterResult.filtered[2].reasons = <<"duplicate">>
    /\ filterResult.filtered[2].participant = participants[2]
    /\ filterParticipants(<<participants[2]>>, config).filtered = <<>>

PWDone == filterOp = "pickWinners"

\* u alone stays a candidate of pickWinners under the filters f
CandidateAlone(u, f) == pickWinnersCandidates(<<u>>, f) = <<u>>

\* C21: the background script's pickWinners never removes a
\* candidate solely because its followerCount, tweetCount or createdAt is
\* unknown: it stays exactly if it stays with that filter switched off.
C21_UnknownMetricNeverExcludes ==
    PWDone =>
        \A u \in Range(participants) :
            /\ ~IsPresent(u.followerCount) =>
                    (Kept(u) <=> CandidateAlone(u, [config EXCEPT !.minFollowers = 0]))
            /\ ~IsPresent(u.tweetCount) =>
                    (Kept(u) <=> CandidateAlone(u, [config EXCEPT !.minTweets = 0]))
            /\ ~IsPresent(u.createdAt) =>
                    (Kept(u) <=> CandidateAlone(u, [config EXCEPT !.minAccountAgeDays = 0]))

\* The k-th input record triggers the predicate of the reason r, each
\* predicate taken on its own
Triggers(r, k) ==
    LET participant == participants[k]
    IN  CASE r = "duplicate"       -> NormalizedUsername(participant) \in SeenBefore(k)
          [] r = "blacklisted"     -> NormalizedUsername(participant) \in normalizedBlacklist(config)
          [] r = "low_followers"   -> LowFollowers(participant, config)
          [] r = "low_following"   -> LowFollowing(participant, config)
          [] r = "new_account"     -> NewAccount(participant, config)
          [] r = "no_avatar"       -> NoAvatar(participant, config)
          [] r = "no_bio"          -> NoBio(participant, config)
          [] r = "low_tweets"      -> LowTweets(participant, config)
          [] r = "not_verified"    -> NotVerified(participant, config)
          [] r = "default_profile" -> DefaultProfile(participant, config)

Triggered(k) == {r \in FilterReasons : Triggers(r, k)}

TriggeringPositions == {k \in DOMAIN participants : Triggered(k) # {}}

FilteredWith(r) ==
    {j \in DOMAIN filterResult.filtered : r \in Range(filterResult.filtered[j].reasons)}

\* C37: the reasons filterParticipants records for a participant are exactly
\* the predicates the participant triggers, each recorded once, and
\* stats.byReason[r] is the number of filtered participants whose reasons
\* contain r.
C37_ReasonsAreTriggeredPredicates ==
    FPDone =>
        /\ [j \in DOMAIN filterResult.filtered |->
               Range(filterResult.filtered[j].reasons)]
             = AtPositions([k \in DOMAIN participants |-> Triggered(k)],
                           TriggeringPositions)
        /\ \A j \in DOMAIN filterResult.filtered :
               Distinct(filterResult.filtered[j].reasons)
        /\ \A r \in FilterReasons :
               filterResult.stats.byReason[r] = Cardinality(FilteredWith(r))

\* Two records were filtered, one of them for three reasons or more, and one
\* reason was counted twice while another was counted once
C37_Witness ==
    /\ FPDone
    /\ Len(filterResult.filtered) = 2
    /\ \E j \in DOMAIN filterResult.filtered : Len(filterResult.filtered[j].reasons) >= 3
    /\ \E r \in FilterReasons : filterResult.stats.byReason[r] = 2
    /\ \E r \in FilterReasons : filterResult.stats.byReason[r] = 1

(***************************************************************************)
(* Claims about the verification hashing (checked under SpecHash)          *)
(***************************************************************************)
HashBothDone == hashOut[1].done /\ hashOut[2].done

LowerHandles(list) == [k \in DOMAIN list |-> ToLowerCase(list[k].username)]

\* The two lists hold the same handles, ignoring letter case, the same number
\* of times each
PermutationIgnoringCase(a, b) ==
    /\ Len(a) = Len(b)
    /\ SameMultiset(LowerHandles(a), LowerHandles(b))

\* C11: for two participant lists that are permutations of each other
\* (handles compared ignoring letter case) hashParticipants builds the same
\* canonical string and returns the same participantHash.
C11_HashIgnoresOrder ==
    (HashBothDone /\ PermutationIgnoringCase(hashLists[1], hashLists[2]))
        => /\ hashOut[1].canonical = hashOut[2].canonical
           /\ hashOut[1].hash = hashOut[2].hash

\* Two lists of three participants in different orders, with handles that
\* differ in letter case, were hashed to the same value
C11_Witness ==
    /\ HashBothDone
    /\ Len(hashLists[1]) = 3
    /\ PermutationIgnoringCase(hashLists[1], hashLists[2])
    /\ LowerHandles(hashLists[1]) # LowerHandles(hashLists[2])
    /\ hashLists[1][1].username # hashLists[2][3].username
    /\ Cardinality(HandleSet(hashLists[1])) >= 2
    /\ hashOut[1].hash = hashOut[2].hash

\* C12: for two participant lists whose sets of normalized handles differ,
\* hashParticipants builds different canonical strings and, the digest being
\* injective, returns different hashes.
C12_HashSeparatesSets ==
    (HashBothDone /\ HandleSet(hashLists[1]) # HandleSet(hashLists[2]))
        => /\ hashOut[1].canonical # hashOut[2].canonical
           /\ hashOut[1].hash # hashOut[2].hash

(***************************************************************************)
(* Claims about eligibility in the popup (checked under SpecPopup)         *)
(***************************************************************************)
\* C20: in the extension popup, when a requirement checkbox (retweet or
\* like) is checked and the list collected for it is empty, calculateEligible
\* returns no eligible user, even if the other required list is non-empty.
C20_PopupEmptyRequiredListFailsClosed ==
    (popup.called /\ (\/ popup.reqRetweet /\ popup.retweeters = <<>>
                      \/ popup.reqLike /\ popup.likers = <<>>)) =>
        popupResult = <<>>

====
